---- MODULE Spec2Model ----
(***************************************************************************)
(* A state-machine model of the fisheries dashboard (React application,    *)
(* OpenLayers map component, synthetic metric generator and aggregation    *)
(* pipeline).                                                              *)
(*                                                                         *)
(* Conventions                                                             *)
(*  - A nullable React state is Null or Some(v).                           *)
(*  - A lookup key `${a}_${b}_${c}` is the sequence of its "_"-separated   *)
(*    parts <<a, b, c>>; no part used by the program contains "_", so      *)
(*    joining is injective and key.split("_") is the sequence itself.      *)
(*  - A MetricBag is a function from indicator names to numbers.  JS       *)
(*    `undefined` and `NaN` are the two negative sentinels below; every    *)
(*    real value the program stores is >= 0.                               *)
(*  - Math.random() is a stream Rnd(seed, n) of fractions n/RandDen with   *)
(*    a nondeterministically chosen seed.                                  *)
(*  - One action is one event handler or promise callback together with    *)
(*    the re-renders and effects it triggers, run to quiescence.           *)
(***************************************************************************)
EXTENDS Integers, Sequences, FiniteSets, TLC

----------------------------------------------------------------------------
(* Bounds of the model *)

\* Math.random() returns one of 0/RandDen .. (RandDen-1)/RandDen
RandDen == 2
\* number of seeds of the random stream
MaxSeed == 2
\* geography / Bihar fetches simultaneously in flight
MaxInFlight == 1
\* user events per run of the dashboard
MaxEvents == 3

----------------------------------------------------------------------------
(* JavaScript values *)

Undefined == -1
NaN == -2
Null == [isNull |-> TRUE]
Some(v) == [isNull |-> FALSE, val |-> v]
IsNull(x) == x.isNull

\* x || d on numbers: 0, NaN and undefined are falsy
OrElse(x, d) == IF x = Undefined \/ x = NaN \/ x = 0 THEN d ELSE x
\* x ?? d
Coalesce(x, d) == IF x = Undefined THEN d ELSE x

Min2(a, b) == IF a <= b THEN a ELSE b

RECURSIVE SeqSum(_)
SeqSum(s) == IF s = <<>> THEN 0 ELSE Head(s) + SeqSum(Tail(s))

RECURSIVE SeqMin(_)
SeqMin(s) == IF Len(s) = 1 THEN s[1] ELSE Min2(s[1], SeqMin(Tail(s)))

RECURSIVE SeqMax(_)
SeqMax(s) == IF Len(s) = 1 THEN s[1]
             ELSE LET m == SeqMax(Tail(s)) IN IF s[1] >= m THEN s[1] ELSE m

SeqMap(F(_), s) == [i \in 1..Len(s) |-> F(s[i])]

IndexOf(s, x) == CHOOSE i \in 1..Len(s) : s[i] = x

Range(s) == {s[i] : i \in 1..Len(s)}

----------------------------------------------------------------------------
(* Geography assets *)

Feature(id, name, level, st, dist, geom) ==
  [shapeID |-> id, shapeName |-> name, level |-> level, st_nm |-> st,
   district_name |-> dist, geom |-> geom]

\* the content of /indianmap.geojson: two states, their districts, one
\* sub-district and one point feature, in file order
GeoFile ==
  << Feature("d1", "Patna", "district", "Bihar", "Patna", "Polygon"),
     Feature("s1", "Bihar", "state", "Bihar", "", "MultiPolygon"),
     Feature("p1", "Marker", "state", "", "", "Point"),
     Feature("t1", "Danapur", "sub-district", "Bihar", "Patna", "Polygon"),
     Feature("s2", "Goa", "state", "Goa", "", "Polygon"),
     Feature("d2", "North Goa", "district", "Goa", "North Goa", "Polygon") >>

\* the content of /bihar1.geojson after normalisation: Dist_Code becomes
\* shapeID, Dist_Name becomes shapeName and district_name, level "district";
\* two districts and one point feature
BiharFile ==
  << Feature("b1", "Gaya", "district", "Bihar", "Gaya", "Polygon"),
     Feature("b2", "Nalanda", "district", "Bihar", "Nalanda", "Polygon"),
     Feature("b3", "Rajgir", "district", "Bihar", "Nalanda", "Point") >>

IsAreal(f) == f.geom = "Polygon" \/ f.geom = "MultiPolygon"

\* data.features.filter(type === "Polygon" || type === "MultiPolygon")
FilterAreal(features) == SelectSeq(features, IsAreal)

----------------------------------------------------------------------------
(* Random stream *)

Rnd(seed, n) == ((seed * 5 + 3) * (n + 1) + (n \div 2) * seed + (n \div 7)) % RandDen

----------------------------------------------------------------------------
(* Synthetic metrics generator *)

GenSchemes == <<"all", "PMMKSS", "KCC", "NFDP">>
GenGenders == <<"all", "male", "female", "transgender">>
GenYears == <<"all", "2021", "2022", "2023", "2024">>

\* modifiers in hundredths
schemeModifiers(s) ==
  CASE s = "all" -> 100 [] s = "PMMKSS" -> 90 [] s = "PMMSY" -> 110
    [] s = "KCC" -> 85 [] s = "NFDP" -> 95
genderModifiers(g) ==
  CASE g = "all" -> 100 [] g = "male" -> 120 [] g = "female" -> 90
    [] g = "transgender" -> 80
yearModifiers(y) ==
  CASE y = "all" -> 100 [] y = "2021" -> 80 [] y = "2022" -> 90
    [] y = "2023" -> 100 [] y = "2024" -> 110

NonPMMSYKeys == {<<s, g, y>> : s \in Range(GenSchemes), g \in Range(GenGenders),
                               y \in Range(GenYears)}

\* position of a key in the scheme / gender / year loop nest, from 0
KeyPos(schemes, key) ==
  ((IndexOf(schemes, key[1]) - 1) * Len(GenGenders)
     + (IndexOf(GenGenders, key[2]) - 1)) * Len(GenYears)
  + (IndexOf(GenYears, key[3]) - 1)

DrawsPerKey == 6
DrawsPerArea(schemes) ==
  1 + Len(schemes) * Len(GenGenders) * Len(GenYears) * DrawsPerKey

\* lo + Math.random() * span, for the n-th draw of the stream
Scaled(seed, n, lo, span) == lo + (Rnd(seed, n) * span) \div RandDen

\* one bag of generateMockData; the weight is kept in thousandths and the
\* funds base in thousands, so that every product stays a 32-bit integer
MockBag(schemes, seed, a, area, key) ==
  LET base == (a - 1) * DrawsPerArea(schemes)
      d0 == base + 1 + KeyPos(schemes, key) * DrawsPerKey
      regionalBias == IF area.level = "state"
                      THEN Scaled(seed, base, 1000, 100)
                      ELSE Scaled(seed, base, 900, 200)
      weight == (schemeModifiers(key[1]) * genderModifiers(key[2])
                   * yearModifiers(key[3]) * regionalBias) \div 1000000
      beneficiaries == (weight * Scaled(seed, d0, 500, 4500)) \div 1000
      funds == weight * Scaled(seed, d0 + 1, 1000, 9000)
      registrations == (weight * Scaled(seed, d0 + 2, 2000, 8000)) \div 1000
  IN [beneficiaries |-> beneficiaries,
      funds |-> funds,
      registrations |-> registrations,
      funds_used |-> ((funds \div 100) * Scaled(seed, d0 + 3, 60, 35)),
      beneficiaries_last_24h |->
         (beneficiaries * Scaled(seed, d0 + 4, 10, 50)) \div 1000,
      registrations_last_24h |->
         (registrations * Scaled(seed, d0 + 5, 50, 200)) \div 10000]

\* the index of the feature whose data ends up under id: a later feature
\* with the same shapeID overwrites an earlier one
LastIndexOf(areas, id) ==
  CHOOSE i \in 1..Len(areas) :
     /\ areas[i].shapeID = id
     /\ \A j \in 1..Len(areas) : areas[j].shapeID = id => j <= i

AreaIds(areas) == {areas[i].shapeID : i \in 1..Len(areas)}

generateMockData(areas, seed) ==
  [id \in AreaIds(areas) |->
     LET a == LastIndexOf(areas, id)
     IN [key \in NonPMMSYKeys |-> MockBag(GenSchemes, seed, a, areas[a], key)]]

PmmsyGenders == <<"male", "female", "transgender">>
PmmsyYears == <<"2021", "2022", "2023", "2024">>
PmmsySectors == <<"Inland", "Marine">>

PMMSYLeafKeys == {<<"PMMSY", g, y, s>> : g \in Range(PmmsyGenders),
                                         y \in Range(PmmsyYears),
                                         s \in Range(PmmsySectors)}

\* the keys of the precomputed aggregates: all/all/all and one per gender,
\* per year and per sector
PMMSYAggKeys ==
  {<<"PMMSY", "all", "all", "all">>}
    \cup {<<"PMMSY", g, "all", "all">> : g \in Range(PmmsyGenders)}
    \cup {<<"PMMSY", "all", y, "all">> : y \in Range(PmmsyYears)}
    \cup {<<"PMMSY", "all", "all", s>> : s \in Range(PmmsySectors)}

PmmsyIndicators == {"totalProjects", "totalInvestment", "fishOutput"}

LeafPos(key) ==
  ((IndexOf(PmmsyGenders, key[2]) - 1) * Len(PmmsyYears)
     + (IndexOf(PmmsyYears, key[3]) - 1)) * Len(PmmsySectors)
  + (IndexOf(PmmsySectors, key[4]) - 1)

PmmsyDrawsPerKey == 3
PmmsyDrawsPerArea == 1 + Len(PmmsyGenders) * Len(PmmsyYears) * Len(PmmsySectors)
                           * PmmsyDrawsPerKey

\* off: the draws generateMockData has taken from the stream before
PmmsyLeafBag(seed, off, a, key) ==
  LET base == off + (a - 1) * PmmsyDrawsPerArea
      d0 == base + 1 + LeafPos(key) * PmmsyDrawsPerKey
      regionalBias == Scaled(seed, base, 100, 1900)
      sectorMod == IF key[4] = "Inland" THEN 110 ELSE 90
      weight == (((genderModifiers(key[2]) * yearModifiers(key[3]) * sectorMod)
                    \div 100) * regionalBias) \div 10000
  IN [totalProjects |-> (weight * Scaled(seed, d0, 3000, 1000)) \div 1000000,
      totalInvestment |-> (weight * Scaled(seed, d0 + 1, 50000, 450000)) \div 1000,
      fishOutput |-> (weight * Scaled(seed, d0 + 2, 5000, 1000)) \div 1000000]

\* does a leaf key feed an aggregate key ("all" in a position is a wildcard)
Feeds(leaf, agg) ==
  \A i \in 2..4 : agg[i] = "all" \/ agg[i] = leaf[i]

RECURSIVE SumOver(_, _)
SumOver(S, F) ==
  IF S = {} THEN 0
  ELSE LET x == CHOOSE y \in S : TRUE IN F[x] + SumOver(S \ {x}, F)

generateMockPMMSYData(areas, seed) ==
  [id \in AreaIds(areas) |->
     LET a == LastIndexOf(areas, id)
         leaf == [k \in PMMSYLeafKeys |->
                    PmmsyLeafBag(seed, Len(areas) * DrawsPerArea(GenSchemes), a, k)]
     IN [key \in PMMSYLeafKeys \cup PMMSYAggKeys |->
           IF key \in PMMSYLeafKeys THEN leaf[key]
           ELSE [m \in PmmsyIndicators |->
                   SumOver({k \in PMMSYLeafKeys : Feeds(k, key)},
                           [k \in PMMSYLeafKeys |-> leaf[k][m]])]]]

----------------------------------------------------------------------------
(* Bihar district metrics *)

AllIndicators == << "beneficiaries", "funds", "registrations", "funds_used",
                    "beneficiaries_last_24h", "registrations_last_24h",
                    "totalProjects", "totalInvestment", "fishOutput" >>

\* districts.map(() => Math.random()): the weight drawn for district idx when
\* the entry (key, mKey) is distributed, as a numerator 1..RandDen
DistrictWeight(seed, key, mKey, n, idx) ==
  LET keyOrd == IF Len(key) = 3 THEN KeyPos(GenSchemes, key) ELSE 0
  IN 1 + Rnd(seed, (keyOrd * Len(AllIndicators) + IndexOf(AllIndicators, mKey)) * n
                     + idx)

\* Math.floor(tempValues[idx] * scale), where tempValues[idx] is mVal times the
\* normalised weight and scale is mVal / sum(tempValues): with a parent value of
\* 0 the scale is 0 / 0
DistrictShare(mVal, w, totalWeight) ==
  IF mVal = NaN \/ mVal = 0 THEN NaN
  ELSE (mVal * w) \div totalWeight

distributeBiharMetrics(biharStateMetrics, districts, seed) ==
  [distId \in AreaIds(districts) |->
     LET idx == LastIndexOf(districts, distId)
         n == Len(districts)
     IN [key \in DOMAIN biharStateMetrics |->
           [mKey \in DOMAIN biharStateMetrics[key] |->
              LET W(i) == DistrictWeight(seed, key, mKey, n, i)
                  totalWeight == SeqSum([i \in 1..n |-> W(i)])
              IN DistrictShare(biharStateMetrics[key][mKey], W(idx), totalWeight)]]]

----------------------------------------------------------------------------
(* Metric stores *)

AggregatedKey == <<"PMMSY", "aggregated">>

ZeroPmmsyBag == [totalProjects |-> 0, totalInvestment |-> 0, fishOutput |-> 0]

ZeroGenericBag == [beneficiaries |-> 0, funds |-> 0, registrations |-> 0,
                   funds_used |-> 0, beneficiaries_last_24h |-> 0,
                   registrations_last_24h |-> 0]

\* filteredData[areaId] = { PMMSY_aggregated: areaData[filterKey] || zeros }
filteredData(pmStore, filterKey) ==
  [areaId \in DOMAIN pmStore |->
     [k \in {AggregatedKey} |->
        IF filterKey \in DOMAIN pmStore[areaId]
        THEN pmStore[areaId][filterKey]
        ELSE ZeroPmmsyBag]]

\* { ...prev, ...more }
Merge(prev, more) ==
  [id \in DOMAIN prev \cup DOMAIN more |->
     IF id \in DOMAIN more THEN more[id] ELSE prev[id]]

\* the ids under which prev holds the metrics of the state named "Bihar"
BiharStateIds(prev, poly) ==
  IF IsNull(poly) THEN {}
  ELSE {id \in DOMAIN prev :
          \E i \in 1..Len(poly.val) :
             poly.val[i].shapeID = id /\ poly.val[i].shapeName = "Bihar"}

\* the updater handed to setMetricData when /bihar1.geojson has loaded; poly is
\* the polygonData the effect closed over
BiharUpdate(prev, poly, districts, seed) ==
  IF IsNull(prev) THEN prev
  ELSE IF BiharStateIds(prev.val, poly) = {} THEN prev
  ELSE LET biharStateId == CHOOSE id \in BiharStateIds(prev.val, poly) : TRUE
       IN Some(Merge(prev.val,
                     distributeBiharMetrics(prev.val[biharStateId], districts, seed)))

----------------------------------------------------------------------------
(* State of the App component, of the map component and of the environment *)

VARIABLES
  polygonData,                 \* Null or Some(features)
  metricData,                  \* Null or Some(id -> key -> bag)
  mockNonPMMSYData,
  mockPMMSYData,
  schemeTotals,
  selectedMetric,
  selectedScheme,              \* "null" before a scheme is chosen
  selectedGender,
  selectedYear,
  selectedSectorPMMSY,
  selectedFinancialYearPMMSY,
  selectedBarChartCategory,
  mapView,
  selectedState,               \* "null" or the drilled-down state's name
  error,                       \* "null" or the error message
  selectedAreaDetails,
  drilledAreaDetails,
  biharGeoJson,
  globalPMMSYMetrics,
  geoFetches,                  \* /indianmap.geojson requests in flight
  biharFetches,                \* /bihar1.geojson requests in flight
  crashed,                     \* a render threw: React has unmounted the tree
  lastEvent,                   \* the handler that ran last and whether it threw
  nEvents,                     \* user events so far
  genCount,                    \* runs of the mock data generators
  geoIssued,                   \* fetches of /indianmap.geojson issued so far
  biharIssued,                 \* fetches of /bihar1.geojson issued so far
  out,                         \* result of the last pure derivation applied
  selectedActivityPMMSY,       \* state of the earlier App component only
  pmmsyAreaSpecificMetrics     \* state of the earlier App component only

vars == << polygonData, metricData, mockNonPMMSYData, mockPMMSYData, schemeTotals,
           selectedMetric, selectedScheme, selectedGender, selectedYear,
           selectedSectorPMMSY, selectedFinancialYearPMMSY,
           selectedBarChartCategory, mapView, selectedState, error,
           selectedAreaDetails, drilledAreaDetails, biharGeoJson,
           globalPMMSYMetrics, geoFetches, biharFetches, crashed,
           lastEvent, nEvents, genCount, geoIssued, biharIssued, out,
           selectedActivityPMMSY, pmmsyAreaSpecificMetrics >>

\* the state only the earlier App component has
LegacyOnly == << selectedActivityPMMSY, pmmsyAreaSpecificMetrics >>

\* the values the user is offered by the selectors (the model's selection of them)
UserSchemes == {"PMMKSS", "PMMSY"}
UserGenders == {"all", "male"}
UserYears == {"all", "2023"}
UserSectors == {"all", "Inland"}
UserFinancialYears == {"all", "2024"}
GenericMetrics == {"beneficiaries", "funds", "registrations"}
BarCategories == {"scheme", "gender", "year"}
MapViews == {"state", "district", "sub-district"}

----------------------------------------------------------------------------
(* Lookups *)

NoBag == [isUndefined |-> TRUE]

\* BagAt reading the store under its overall key, whatever key is asked for
BagAtOverallKey(md, id, key) ==
  IF IsNull(md) THEN NoBag
  ELSE IF id \notin DOMAIN md.val THEN NoBag
  ELSE IF <<"all", "all", "all">> \in DOMAIN md.val[id]
  THEN md.val[id][<<"all", "all", "all">>]
  ELSE IF key \notin DOMAIN md.val[id] THEN NoBag
  ELSE md.val[id][key]

\* metricData?.[id]?.[key]
BagAt(md, id, key) ==
  IF IsNull(md) THEN NoBag
  ELSE IF id \notin DOMAIN md.val THEN NoBag
  ELSE IF key \notin DOMAIN md.val[id] THEN NoBag
  ELSE md.val[id][key]

\* bag?.[metric]
ValueOf(bag, metric) == IF metric \in DOMAIN bag THEN bag[metric] ELSE Undefined

\* metricData?.[id]?.[key]?.[metric]
Lookup(md, id, key, metric) == ValueOf(BagAt(md, id, key), metric)

----------------------------------------------------------------------------
(* Memoised derivations of App *)

OfficerList == << "Amit Kumar", "Priya Sharma", "Rajesh Singh", "Anjali Devi",
                  "Sanjay Yadav", "Neha Gupta", "Vikram Rathore", "Pooja Kumari",
                  "Rahul Verma", "Deepa Singh" >>

officerNames ==
  IF IsNull(polygonData) THEN << >>
  ELSE LET fs == polygonData.val
       IN [id \in AreaIds(fs) |->
             OfficerList[((LastIndexOf(fs, id) - 1) % Len(OfficerList)) + 1]]

\* officerNames[id] || fallback
OfficerOf(id, fallback) ==
  IF id \in DOMAIN officerNames THEN officerNames[id] ELSE fallback

combinedMetricData ==
  IF IsNull(mockNonPMMSYData) \/ IsNull(mockPMMSYData) THEN Null
  ELSE IF selectedScheme = "PMMSY"
  THEN Some(filteredData(mockPMMSYData.val,
                         <<"PMMSY", selectedGender, selectedFinancialYearPMMSY,
                           selectedSectorPMMSY>>))
  ELSE mockNonPMMSYData

\* which object the memo returns: null, the mockNonPMMSYData object itself, or
\* the filteredData object built for the current dependencies (a new object
\* whenever a dependency has changed)
combinedMetricDataObject ==
  IF IsNull(mockNonPMMSYData) \/ IsNull(mockPMMSYData) THEN << "null" >>
  ELSE IF selectedScheme = "PMMSY"
  THEN << "filteredData", selectedGender, selectedFinancialYearPMMSY,
          selectedSectorPMMSY >>
  ELSE << "mockNonPMMSYData" >>

FeaturesOfLevel(fs, level) == SelectSeq(fs, LAMBDA f : f.level = level)

filteredGeoJsonData ==
  IF IsNull(polygonData) THEN Null
  ELSE LET InState(f) == selectedState = "null" \/ f.st_nm = selectedState
           Named(f) == selectedState = "null" \/ f.shapeName = selectedState
           stateFeaturesToShow ==
             SelectSeq(FeaturesOfLevel(polygonData.val, "state"), Named)
           districtFeaturesToShow ==
             SelectSeq(FeaturesOfLevel(polygonData.val, "district"), InState)
           subDistrictFeaturesToShow ==
             SelectSeq(FeaturesOfLevel(polygonData.val, "sub-district"), InState)
       IN IF mapView = "state" THEN Some(stateFeaturesToShow)
          ELSE IF mapView = "district"
          THEN Some(districtFeaturesToShow \o stateFeaturesToShow)
          ELSE Some(subDistrictFeaturesToShow \o districtFeaturesToShow
                      \o stateFeaturesToShow)

demographicKey ==
  IF selectedScheme = "PMMSY" THEN AggregatedKey
  ELSE <<selectedScheme, selectedGender, selectedYear>>

\* features.filter(level === mapView)
ActiveFeatures ==
  IF IsNull(filteredGeoJsonData) THEN << >>
  ELSE FeaturesOfLevel(filteredGeoJsonData.val, mapView)

\* StyleValue without the "|| 0" fallback
StyleValueNoFallback(md, id, key, metric) == Lookup(md, id, key, metric)

\* the value the style function colours a feature by:
\* metricData?.[id]?.[demographicKey]?.[selectedMetric] || 0
StyleValue(md, id, key, metric) == OrElse(Lookup(md, id, key, metric), 0)

\* DefinedValues with undefined coerced to 0 instead of dropped
DefinedValuesCoerced(values) ==
  SeqMap(LAMBDA v : IF v = Undefined THEN 0 ELSE v, values)

\* values.filter(value => value !== undefined)
DefinedValues(values) == SelectSeq(values, LAMBDA v : v /= Undefined)

\* average, min and max of a non-empty list of numbers; NaN is contagious
Summary(values) ==
  IF \E i \in 1..Len(values) : values[i] = NaN
  THEN [average |-> NaN, min |-> NaN, max |-> NaN]
  ELSE [average |-> SeqSum(values) \div Len(values),
        min |-> SeqMin(values),
        max |-> SeqMax(values)]

kpis ==
  IF IsNull(metricData) \/ IsNull(filteredGeoJsonData) THEN Null
  ELSE LET relevantFeatureIds == SeqMap(LAMBDA f : f.shapeID, ActiveFeatures)
           values == DefinedValues(
                       SeqMap(LAMBDA id : Lookup(metricData, id, demographicKey,
                                                 selectedMetric),
                              relevantFeatureIds))
       IN IF Len(values) = 0 THEN Some([average |-> 0, min |-> 0, max |-> 0])
          ELSE Some(Summary(values))

\* Array.prototype.sort((a, b) => b.overallValue - a.overallValue): a stable
\* sort, so a row goes behind every row already placed whose value is not smaller
RECURSIVE InsertDesc(_, _)
InsertDesc(sorted, x) ==
  IF sorted = << >> THEN <<x>>
  ELSE IF Head(sorted).overallValue >= x.overallValue
  THEN <<Head(sorted)>> \o InsertDesc(Tail(sorted), x)
  ELSE <<x>> \o sorted

RECURSIVE SortDesc(_)
SortDesc(rows) ==
  IF rows = << >> THEN << >>
  ELSE InsertDesc(SortDesc(SubSeq(rows, 1, Len(rows) - 1)), rows[Len(rows)])

TopN == 10

\* Slice10 without the cut
SliceAll(rows) == rows

\* .slice(0, 10)
Slice10(rows) == SubSeq(rows, 1, Min2(Len(rows), TopN))

overallMetricDataForSorting ==
  IF IsNull(metricData) \/ IsNull(filteredGeoJsonData) THEN << >>
  ELSE LET overallKey == IF selectedScheme = "PMMSY" THEN AggregatedKey
                         ELSE <<"all", "all", "all">>
           fs == filteredGeoJsonData.val
       IN [id \in AreaIds(fs) |->
             Coalesce(Lookup(metricData, id, overallKey, selectedMetric), 0)]

\* overallMetricDataForSorting[id] || 0
OverallValue(id) ==
  IF id \in DOMAIN overallMetricDataForSorting
  THEN OrElse(overallMetricDataForSorting[id], 0) ELSE 0

sortedAreas ==
  Slice10(SortDesc(SeqMap(LAMBDA f : [id |-> f.shapeID,
                                      name |-> IF f.shapeName = "" THEN "Unknown Area"
                                               ELSE f.shapeName,
                                      overallValue |-> OverallValue(f.shapeID)],
                          ActiveFeatures)))

BarKeys ==
  CASE selectedBarChartCategory = "scheme" -> <<"PMMKSS", "KCC", "NFDP">>
    [] selectedBarChartCategory = "gender" -> <<"male", "female", "transgender">>
    [] selectedBarChartCategory = "year" -> <<"2021", "2022", "2023", "2024">>

getDemographicKey(key) ==
  CASE selectedBarChartCategory = "scheme" -> <<key, selectedGender, selectedYear>>
    [] selectedBarChartCategory = "gender" -> <<selectedScheme, key, selectedYear>>
    [] selectedBarChartCategory = "year" -> <<selectedScheme, selectedGender, key>>

barData ==
  IF IsNull(metricData) \/ IsNull(filteredGeoJsonData) THEN << >>
  ELSE SeqMap(LAMBDA area :
                [name |-> area.name,
                 values |-> [k \in Range(BarKeys) |->
                               Coalesce(Lookup(metricData, area.id,
                                               getDemographicKey(k),
                                               selectedMetric), 0)]],
              sortedAreas)

----------------------------------------------------------------------------
(* PMMSY chart aggregation *)

\* does a stored key pass the gender / financial-year / sector selections;
\* the parts come from key.split("_")
KeyMatches(key, gender, fy, sector) ==
  /\ gender = "all" \/ key[2] = gender
  /\ fy = "all" \/ key[3] = fy
  /\ sector = "all" \/ key[4] = sector

\* Math.floor(x * (5 + Math.random() * 10)) for the draw n / RandDen
Employment(x, n) == (x * (5 * RandDen + 10 * n)) \div RandDen

\* the direct / indirect split of an employment total; Math.floor(NaN * c) is NaN
EmploymentSplit(total) ==
  IF total = NaN
  THEN [totalEmploymentGenerated |-> NaN, directEmploymentMen |-> NaN,
        directEmploymentWomen |-> NaN, indirectEmploymentMen |-> NaN,
        indirectEmploymentWomen |-> NaN]
  ELSE [totalEmploymentGenerated |-> total,
        directEmploymentMen |-> (total * 4) \div 10,
        directEmploymentWomen |-> (total * 3) \div 10,
        indirectEmploymentMen |-> (total * 2) \div 10,
        indirectEmploymentWomen |-> total \div 10]

ZeroGlobalMetrics ==
  [totals |-> ZeroPmmsyBag, employment |-> EmploymentSplit(0),
   projectsByStateUT |-> << >>, sectorDistribution |-> << >>]

ChartAreaName(f, view) ==
  IF view \in {"district", "sub-district"} /\ f.district_name /= ""
  THEN f.district_name
  ELSE IF f.shapeName = "" THEN "Unknown" ELSE f.shapeName

RECURSIVE Dedupe(_)
Dedupe(names) ==
  IF names = << >> THEN << >>
  ELSE LET front == Dedupe(SubSeq(names, 1, Len(names) - 1))
           x == names[Len(names)]
       IN IF x \in Range(front) THEN front ELSE Append(front, x)

\* the body of aggregatePMMSYChartData over the values it closes over: the
\* PMMSY store, the features of the active level, the view, the three filters,
\* the selected metric; n is the employment draw
AggregateChart(data, features, view, gender, fy, sector, metric, n) ==
  LET featuresForChart == SelectSeq(features, LAMBDA f : f.shapeID \in DOMAIN data)
      \* per area, the matching keys and the sum of metrics[m] || 0 over them
      matching == [id \in DOMAIN data |->
                     {k \in DOMAIN data[id] : KeyMatches(k, gender, fy, sector)}]
      areaTotal == [id \in DOMAIN data |->
                      [m \in PmmsyIndicators |->
                         SumOver(matching[id],
                                 [k \in matching[id] |->
                                    OrElse(ValueOf(data[id][k], m), 0)])]]
      AreaMetric(id) == IF metric \in PmmsyIndicators THEN areaTotal[id][metric] ELSE 0
      Total(m) == SeqSum(SeqMap(LAMBDA f : areaTotal[f.shapeID][m], featuresForChart))
      names == Dedupe(SeqMap(LAMBDA f : ChartAreaName(f, view), featuresForChart))
      NameTotal(nm) ==
        SeqSum(SeqMap(LAMBDA f : IF ChartAreaName(f, view) = nm
                                 THEN AreaMetric(f.shapeID) ELSE 0,
                      featuresForChart))
      sectors == {k[4] : k \in {k \in UNION {matching[f.shapeID] :
                                               f \in Range(featuresForChart)} :
                                  k[4] /= "all"}}
      SectorTotal(sec) ==
        SeqSum(SeqMap(LAMBDA f :
                        LET ks == {k \in matching[f.shapeID] : k[4] = sec}
                        IN SumOver(ks, [k \in ks |->
                             OrElse(ValueOf(data[f.shapeID][k], "totalProjects"), 0)]),
                      featuresForChart))
  IN [totals |-> [m \in PmmsyIndicators |-> Total(m)],
      employment |-> EmploymentSplit(Employment(Total("totalProjects"), n)),
      projectsByStateUT |->
        Slice10(SortDesc(SeqMap(LAMBDA nm : [name |-> nm,
                                             overallValue |-> NameTotal(nm)],
                                names))),
      sectorDistribution |-> [sec \in sectors |-> SectorTotal(sec)]]

\* the value aggregatePMMSYChartData hands to setGlobalPMMSYMetrics
aggregatePMMSYChartData(n) ==
  AggregateChart(mockPMMSYData.val, ActiveFeatures, mapView, selectedGender,
                 selectedFinancialYearPMMSY, selectedSectorPMMSY, selectedMetric, n)

\* the dependencies of the effect that re-runs the aggregation, apart from
\* the identity of polygonData
AggregationDeps ==
  << selectedScheme, selectedGender, selectedSectorPMMSY,
     selectedFinancialYearPMMSY, IsNull(mockPMMSYData), IsNull(polygonData),
     mapView, selectedState, selectedMetric >>

\* schemeTotals, computed once both stores exist
SchemeTotalsOf(non, pm) ==
  [scheme \in {"all", "PMMKSS", "PMMSY", "KCC", "NFDP"} |->
     IF scheme \in {"PMMKSS", "KCC", "NFDP"}
     THEN SumOver(DOMAIN non, [id \in DOMAIN non |->
            OrElse(ValueOf(non[id][<<scheme, "all", "all">>], "funds"), 0)])
     ELSE IF scheme = "PMMSY"
     THEN SumOver(DOMAIN pm, [id \in DOMAIN pm |->
            OrElse(ValueOf(pm[id][<<"PMMSY", "all", "all", "all">>],
                           "totalInvestment"), 0)])
     ELSE 0]

----------------------------------------------------------------------------
(* The top-areas bar chart of the PMMSY scheme *)

\* totalValue of pmmsyBarData for one area: metrics[selectedMetric] || 0 summed
\* over every stored key, leaf or precomputed aggregate, that passes the filters
PmmsyTotalValue(areaData, gender, fy, sector, metric) ==
  LET ks == {k \in DOMAIN areaData : KeyMatches(k, gender, fy, sector)}
  IN SumOver(ks, [k \in ks |-> OrElse(ValueOf(areaData[k], metric), 0)])

\* sortedAreas of pmmsyBarData over the values it closes over
PmmsySortedAreas(data, features, gender, fy, sector, metric) ==
  Slice10(SortDesc(SeqMap(
    LAMBDA f : [id |-> f.shapeID,
                name |-> IF f.shapeName = "" THEN "Unknown Area" ELSE f.shapeName,
                overallValue |->
                  IF f.shapeID \in DOMAIN data
                  THEN OrElse(PmmsyTotalValue(data[f.shapeID], gender, fy, sector,
                                              metric), 0)
                  ELSE 0],
    features)))

\* keys of pmmsyBarData
PmmsyBarKeys(category) ==
  CASE category = "gender" -> <<"male", "female", "transgender">>
    [] category = "year" -> <<"2021", "2022", "2023", "2024">>
    [] category = "scheme" -> <<"Inland", "Marine">>

\* getDemographicKey of pmmsyBarData: a selection of "all" in another dimension
\* is replaced by "male", "2024" or "Inland"
PmmsyDemographicKey(category, key, gender, fy, sector) ==
  LET g == IF gender = "all" THEN "male" ELSE gender
      y == IF fy = "all" THEN "2024" ELSE fy
      s == IF sector = "all" THEN "Inland" ELSE sector
  IN CASE category = "gender" -> <<"PMMSY", key, y, s>>
       [] category = "year" -> <<"PMMSY", g, key, s>>
       [] category = "scheme" -> <<"PMMSY", g, y, key>>

pmmsyBarData ==
  IF IsNull(mockPMMSYData) \/ IsNull(filteredGeoJsonData)
  THEN [sortedAreas |-> << >>, data |-> << >>, keys |-> << >>]
  ELSE LET areas == PmmsySortedAreas(mockPMMSYData.val, ActiveFeatures,
                                     selectedGender, selectedFinancialYearPMMSY,
                                     selectedSectorPMMSY, selectedMetric)
           keys == PmmsyBarKeys(selectedBarChartCategory)
       IN [sortedAreas |-> areas,
           keys |-> keys,
           data |-> SeqMap(
             LAMBDA area :
               [name |-> area.name,
                values |-> [k \in Range(keys) |->
                   OrElse(Lookup(mockPMMSYData, area.id,
                                 PmmsyDemographicKey(selectedBarChartCategory, k,
                                                     selectedGender,
                                                     selectedFinancialYearPMMSY,
                                                     selectedSectorPMMSY),
                                 selectedMetric), 0)]],
             areas)]

\* the rows TopAreasBarChart is given: pmmsyBarData under PMMSY, else barData
TopAreasRows ==
  IF selectedScheme = "PMMSY" THEN pmmsyBarData.sortedAreas ELSE sortedAreas

----------------------------------------------------------------------------
(* The distribution pie chart *)

Infinity == -3

Bracket(min, max, label) == [min |-> min, max |-> max, label |-> label]

\* brackets[metric], in the order of the list; << >> for an indicator without one
brackets(metric) ==
  CASE metric = "beneficiaries" ->
         << Bracket(4000, Infinity, "4000+"), Bracket(3000, 4000, "3000-4000"),
            Bracket(2000, 3000, "2000-3000"), Bracket(0, 2000, "0-2000") >>
    [] metric = "funds" ->
         << Bracket(8000000, Infinity, "80L+"), Bracket(5000000, 8000000, "50L-80L"),
            Bracket(3000000, 5000000, "30L-50L"), Bracket(0, 3000000, "0-30L") >>
    [] metric = "registrations" ->
         << Bracket(8000, Infinity, "8000+"), Bracket(6000, 8000, "6000-8000"),
            Bracket(4000, 6000, "4000-6000"), Bracket(0, 4000, "0-4000") >>
    [] metric = "totalProjects" ->
         << Bracket(80, Infinity, "80+"), Bracket(50, 80, "50-80"),
            Bracket(30, 50, "30-50"), Bracket(0, 30, "0-30") >>
    [] metric = "totalInvestment" ->
         << Bracket(4000000, Infinity, "40L+"), Bracket(2500000, 4000000, "25L-40L"),
            Bracket(1000000, 2500000, "10L-25L"), Bracket(0, 1000000, "0-10L") >>
    [] metric = "fishOutput" ->
         << Bracket(150, Infinity, "150+"), Bracket(100, 150, "100-150"),
            Bracket(50, 100, "50-100"), Bracket(0, 50, "0-50") >>
    [] OTHER -> << >>

\* InBracket comparing against max even when max is Infinity
InBracketBounded(b, value) == value >= b.min /\ value < b.max

\* value >= b.min && (b.max === Infinity ? true : value < b.max)
InBracket(b, value) ==
  value >= b.min /\ (IF b.max = Infinity THEN TRUE ELSE value < b.max)

\* currentBrackets.indexOf(currentBrackets.find(...)), from 1; 0 when find
\* returns undefined
FindBracket(currentBrackets, value) ==
  IF \E i \in 1..Len(currentBrackets) : InBracket(currentBrackets[i], value)
  THEN CHOOSE i \in 1..Len(currentBrackets) :
         /\ InBracket(currentBrackets[i], value)
         /\ \A j \in 1..(i - 1) : ~InBracket(currentBrackets[j], value)
  ELSE 0

pieData ==
  IF IsNull(metricData) \/ IsNull(filteredGeoJsonData)
     \/ brackets(selectedMetric) = << >>
  THEN << >>
  ELSE LET currentBrackets == brackets(selectedMetric)
           values == DefinedValues(
                       SeqMap(LAMBDA f : Lookup(metricData, f.shapeID, demographicKey,
                                                selectedMetric),
                              ActiveFeatures))
       IN [i \in 1..Len(currentBrackets) |->
             [name |-> currentBrackets[i].label,
              value |-> Len(SelectSeq(values,
                              LAMBDA v : FindBracket(currentBrackets, v) = i))]]

----------------------------------------------------------------------------
(* Click and drill-down handlers of App *)

\* a JavaScript argument: an object (a record) or a bare string; reading a
\* property of a string that it does not have gives undefined
ObjArg(r) == [isString |-> FALSE, obj |-> r]
StrArg(str) == [isString |-> TRUE, str |-> str]
NoProp == "undefined"
Prop(arg, field) ==
  IF arg.isString THEN NoProp
  ELSE IF field \in DOMAIN arg.obj THEN arg.obj[field] ELSE NoProp

\* x || fallback on strings
StrOr(x, fallback) == IF x = NoProp \/ x = "" THEN fallback ELSE x

getAverageGroup(level, st_nm, district_name) ==
  LET fs == polygonData.val
  IN IF level = "state" THEN FeaturesOfLevel(fs, "state")
     ELSE IF level = "district"
     THEN SelectSeq(fs, LAMBDA f : f.level = "district" /\ f.st_nm = st_nm)
     ELSE IF level = "sub-district"
     THEN SelectSeq(fs, LAMBDA f : f.level = "sub-district"
                                    /\ f.district_name = district_name)
     ELSE << >>

\* averages[key] = metricSums[key] / count, kept as the sums and the count
AveragesOf(group) ==
  LET bags == SelectSeq(SeqMap(LAMBDA f : BagAt(metricData, f.shapeID, demographicKey),
                               group),
                        LAMBDA b : b /= NoBag)
      keys == UNION {DOMAIN bags[i] : i \in 1..Len(bags)}
  IN [sums |-> [k \in keys |->
                  SeqSum(SeqMap(LAMBDA b : OrElse(ValueOf(b, k), 0), bags))],
      count |-> Len(group)]

\* Math.floor(averages.totalProjects * (5 + Math.random() * 10))
AverageEmployment(averages, n) ==
  IF "totalProjects" \notin DOMAIN averages.sums \/ averages.count = 0 THEN NaN
  ELSE (averages.sums["totalProjects"] * (5 * RandDen + 10 * n))
          \div (averages.count * RandDen)

\* the object both handlers build from their argument
AreaDetailsOf(arg, n1, n2) ==
  LET id == Prop(arg, "id")
      averages == AveragesOf(getAverageGroup(Prop(arg, "level"), Prop(arg, "st_nm"),
                                             Prop(arg, "district_name")))
      stored == BagAt(metricData, id, demographicKey)
      common == [id |-> id,
                 name |-> StrOr(Prop(arg, "name"), "Unknown Area"),
                 officer |-> OfficerOf(id, "Unknown Officer"),
                 level |-> StrOr(Prop(arg, "level"), "Unknown"),
                 st_nm |-> Prop(arg, "st_nm"),
                 district_name |-> Prop(arg, "district_name")]
  IN IF selectedScheme = "PMMSY"
     THEN LET metrics == IF stored = NoBag THEN ZeroPmmsyBag ELSE stored
              tp == ValueOf(metrics, "totalProjects")
          IN [common |-> common,
              \* the spread keeps the metrics property of the argument
              metrics |-> IF arg.isString \/ "metrics" \notin DOMAIN arg.obj
                          THEN NoBag ELSE arg.obj.metrics,
              pmmsyMetrics |->
                [totals |-> [m \in PmmsyIndicators |-> OrElse(ValueOf(metrics, m), 0)],
                 employment |->
                   EmploymentSplit(IF tp = Undefined \/ tp = NaN THEN NaN
                                   ELSE Employment(tp, n1))],
              pmmsyAverages |->
                [averages |-> averages,
                 totalEmploymentGenerated |-> AverageEmployment(averages, n2)]]
     ELSE [common |-> common,
           metrics |-> IF stored = NoBag THEN ZeroGenericBag ELSE stored,
           averages |-> averages]

----------------------------------------------------------------------------
(* What App renders *)

\* Screen with the loading gate placed before the error gate
ScreenLoadingFirst ==
  IF crashed THEN "blank"
  ELSE IF IsNull(polygonData) \/ IsNull(metricData) THEN "loading"
  ELSE IF error /= "null" THEN "error"
  ELSE IF selectedScheme = "null" THEN "schemes"
  ELSE "dashboard"

\* the render gates, in the order of the code; "blank" is the unmounted tree
\* after a render has thrown
Screen ==
  IF crashed THEN "blank"
  ELSE IF error /= "null" THEN "error"
  ELSE IF IsNull(polygonData) \/ IsNull(metricData) THEN "loading"
  ELSE IF selectedScheme = "null" THEN "schemes"
  ELSE "dashboard"

\* a piece of rendered text: a number with its unit, the literal "N/A", or
\* the TypeError that ends the render
Text(unit, num) == [unit |-> unit, num |-> num]
NotAvailable == Text("N/A", Undefined)
Throws == Text("TypeError", Undefined)

\* num.toLocaleString() and the Cr / L forms of num.toFixed(2): a comparison
\* with undefined or NaN is false, and undefined has no toLocaleString
formatNumber(num) ==
  IF num = Undefined THEN Throws
  ELSE IF num = NaN THEN Text("", NaN)
  ELSE IF num >= 10000000 THEN Text("Cr", num \div 100000)
  ELSE IF num >= 100000 THEN Text("L", num \div 1000)
  ELSE Text("", num)

\* value / d; undefined / d is NaN
Quot(value, d) ==
  IF value = Undefined \/ value = NaN THEN NaN ELSE value \div d

formatMetricValue(metric, value) ==
  IF metric \in {"beneficiaries_last_24h", "registrations_last_24h", "totalProjects"}
  THEN IF value = Undefined THEN Throws ELSE Text("", value)
  ELSE IF metric \in {"funds", "funds_used", "totalInvestment"}
  THEN IF mapView = "district" /\ selectedScheme = "PMMSY"
       THEN formatNumber(Quot(value, 20))
       ELSE IF mapView = "sub-district" /\ selectedScheme = "PMMSY"
       THEN formatNumber(Quot(value, 200))
       ELSE formatNumber(value)
  ELSE IF metric = "fishOutput"
  THEN IF value = Undefined /\ mapView = "state" THEN Throws
       ELSE Text("Tonnes", IF mapView = "district" THEN Quot(value, 20)
                           ELSE IF mapView = "sub-district" THEN Quot(value, 200)
                           ELSE value)
  ELSE formatNumber(value)

\* the six fields of the generic branch of the popup
PopupFields ==
  << "funds", "funds_used", "beneficiaries", "beneficiaries_last_24h",
     "registrations", "registrations_last_24h" >>

\* AreaDetailsPopup: the branch it renders for the selection and the scheme
\* and the texts of its fields; the branch "throws" is a render that ended in
\* a TypeError
AreaDetailsPopup(details, scheme) ==
  IF IsNull(details) THEN [branch |-> "hidden", fields |-> << >>]
  ELSE IF scheme = "PMMSY" /\ "pmmsyMetrics" \in DOMAIN details.val
  THEN LET pm == details.val.pmmsyMetrics
       IN [branch |-> "PMMSY",
           fields |-> << Text("", pm.totals.totalProjects),
                         formatMetricValue("funds", pm.totals.totalInvestment),
                         Text("", pm.totals.fishOutput),
                         Text("", pm.employment.totalEmploymentGenerated),
                         Text("", pm.employment.directEmploymentWomen),
                         Text("", pm.employment.directEmploymentMen),
                         Text("", pm.employment.indirectEmploymentWomen),
                         Text("", pm.employment.indirectEmploymentMen) >>]
  ELSE LET fields == [i \in 1..Len(PopupFields) |->
                        IF details.val.metrics = NoBag THEN NotAvailable
                        ELSE formatMetricValue(PopupFields[i],
                                               ValueOf(details.val.metrics,
                                                       PopupFields[i]))]
       IN IF \E i \in 1..Len(PopupFields) : fields[i] = Throws
          THEN [branch |-> "throws", fields |-> << >>]
          ELSE [branch |-> "generic", fields |-> fields]

\* the national map is rendered only while no state is drilled into
MapMounted == Screen = "dashboard" /\ selectedState = "null"

\* the drill-down panel reads drilledAreaDetails.name and then
\* drilledAreaDetails.pmmsyMetrics.* or drilledAreaDetails.metrics.*
DrillPanelThrows ==
  /\ selectedState /= "null"
  /\ \/ IsNull(drilledAreaDetails)
     \/ /\ ~IsNull(drilledAreaDetails)
        /\ IF selectedScheme = "PMMSY"
           THEN "pmmsyMetrics" \notin DOMAIN drilledAreaDetails.val
           ELSE drilledAreaDetails.val.metrics = NoBag

\* a render of the dashboard throws in the drill-down panel or in the popup
RenderThrows ==
  /\ error = "null" /\ ~IsNull(polygonData) /\ ~IsNull(metricData)
  /\ selectedScheme /= "null"
  /\ \/ DrillPanelThrows
     \/ AreaDetailsPopup(selectedAreaDetails, selectedScheme).branch = "throws"

\* the map component's ref mirrors: the effect that follows every render copies
\* the props into them, Null while the map is not mounted
mapRefs ==
  IF MapMounted
  THEN Some([metricData |-> metricData, demographicKey |-> demographicKey,
             mapView |-> mapView, officerNames |-> officerNames])
  ELSE Null

----------------------------------------------------------------------------
(* Map events *)

\* the features under the three pixels the user can point at, topmost first
Pixels ==
  { << GeoFile[4], GeoFile[1], GeoFile[2] >>,
    << GeoFile[6], GeoFile[5] >>,
    << >> }

\* map.getFeaturesAtPixel: the features of the vector source under the pixel
FeaturesAtPixel(pixel) ==
  SelectSeq(pixel, LAMBDA f : f \in Range(filteredGeoJsonData.val))

\* features.find(level === l), Null when there is none
FindLevel(features, l) ==
  IF FeaturesOfLevel(features, l) = << >> THEN Null
  ELSE Some(Head(FeaturesOfLevel(features, l)))

\* featureToClick of the click handler
FeatureToClick(features, currentMapView) ==
  LET first == IF currentMapView \in {"sub-district", "district"}
               THEN FindLevel(features, currentMapView) ELSE Null
  IN IF IsNull(first) /\ currentMapView = "state"
     THEN FindLevel(features, "state") ELSE first

\* the argument the click handler passes to onAreaClick: Null or the details
ClickDetails(features) ==
  LET refs == mapRefs.val
      found == FeatureToClick(features, refs.mapView)
  IN IF IsNull(found) \/ found.val.geom = "Point" THEN Null
     ELSE LET f == found.val
          IN IF f.level /= refs.mapView THEN Null
             ELSE Some(ObjArg(
                    [id |-> f.shapeID,
                     name |-> IF f.shapeName = "" THEN "Unknown Area" ELSE f.shapeName,
                     officer |-> IF f.shapeID \in DOMAIN refs.officerNames
                                 THEN refs.officerNames[f.shapeID] ELSE "N/A",
                     metrics |-> BagAt(refs.metricData, f.shapeID, refs.demographicKey),
                     level |-> f.level,
                     st_nm |-> f.st_nm,
                     district_name |-> f.district_name]))

\* the argument the dblclick handler passes to onDrillDown: the state's name
DrillArg(features) ==
  LET featureToDrill == FindLevel(features, "state")
  IN IF IsNull(featureToDrill) THEN Null
     ELSE Some(StrArg(featureToDrill.val.shapeName))

----------------------------------------------------------------------------
(* The application: state after mount, effects, handlers *)

NoEvent == [type |-> "mount", target |-> "none", threw |-> FALSE]
Event(type, target, threw) == [type |-> type, target |-> target, threw |-> threw]

\* after the first render and its effects: both fetches are in flight, the
\* geography fetch having closed over combinedMetricData = null and the Bihar
\* fetch over polygonData = null
Init ==
  /\ polygonData = Null /\ metricData = Null
  /\ mockNonPMMSYData = Null /\ mockPMMSYData = Null /\ schemeTotals = Null
  /\ selectedMetric = "beneficiaries" /\ selectedScheme = "null"
  /\ selectedGender = "all" /\ selectedYear = "all"
  /\ selectedSectorPMMSY = "all" /\ selectedFinancialYearPMMSY = "all"
  /\ selectedBarChartCategory = "scheme" /\ mapView = "state"
  /\ selectedState = "null" /\ error = "null"
  /\ selectedAreaDetails = Null /\ drilledAreaDetails = Null
  /\ biharGeoJson = Null /\ globalPMMSYMetrics = ZeroGlobalMetrics
  /\ geoFetches = << [captured |-> Null] >>
  /\ biharFetches = << [polygonData |-> Null] >>
  /\ crashed = FALSE
  /\ lastEvent = NoEvent /\ nEvents = 0 /\ genCount = 0
  /\ geoIssued = 1 /\ biharIssued = 1
  /\ out = Null
  /\ selectedActivityPMMSY = "all" /\ pmmsyAreaSpecificMetrics = Null

Remove(s, i) == SubSeq(s, 1, i - 1) \o SubSeq(s, i + 1, Len(s))

\* The effects that run after a handler's state updates, to quiescence.  The
\* handler has set the primed values of the variables it writes; geoRest and
\* biharRest are the requests still in flight, polyChanged tells whether
\* setPolygonData was called (with a new object).
EffectsWithin(limit, geoRest, biharRest, polyChanged) ==
  \* mock data generation, guarded by the two stores
  /\ IF ~IsNull(polygonData') /\ IsNull(mockNonPMMSYData) /\ IsNull(mockPMMSYData)
     THEN \E seed \in 0..(MaxSeed - 1) :
            /\ mockNonPMMSYData' = Some(generateMockData(polygonData'.val, seed))
            /\ mockPMMSYData' = Some(generateMockPMMSYData(polygonData'.val, seed))
            /\ schemeTotals' =
                 Some(SchemeTotalsOf(mockNonPMMSYData'.val, mockPMMSYData'.val))
            /\ genCount' = genCount + 1
     ELSE UNCHANGED << mockNonPMMSYData, mockPMMSYData, schemeTotals, genCount >>
  \* the geography fetch effect, deps [combinedMetricData]
  /\ IF combinedMetricDataObject' /= combinedMetricDataObject
     THEN /\ geoFetches' = Append(geoRest, [captured |-> combinedMetricData'])
          /\ geoIssued' = geoIssued + 1
     ELSE /\ geoFetches' = geoRest
          /\ geoIssued' = geoIssued
  \* the Bihar fetch effect, deps [polygonData]
  /\ IF polyChanged
     THEN /\ biharFetches' = Append(biharRest, [polygonData |-> polygonData'])
          /\ biharIssued' = biharIssued + 1
     ELSE /\ biharFetches' = biharRest
          /\ biharIssued' = biharIssued
  /\ Len(geoFetches') <= limit
  /\ Len(biharFetches') <= limit
  \* the PMMSY chart aggregation
  /\ IF /\ selectedScheme' = "PMMSY"
        /\ ~IsNull(mockPMMSYData') /\ ~IsNull(polygonData')
        /\ (polyChanged \/ AggregationDeps' /= AggregationDeps)
     THEN \E n \in 0..(RandDen - 1) :
            globalPMMSYMetrics' =
              AggregateChart(mockPMMSYData'.val, ActiveFeatures', mapView',
                             selectedGender', selectedFinancialYearPMMSY',
                             selectedSectorPMMSY', selectedMetric', n)
     ELSE UNCHANGED globalPMMSYMetrics
  /\ crashed' = RenderThrows'
  /\ UNCHANGED LegacyOnly

\* the effects, with at most MaxInFlight requests of each file in flight
Effects(geoRest, biharRest, polyChanged) ==
  EffectsWithin(MaxInFlight, geoRest, biharRest, polyChanged)

Filters == << selectedGender, selectedYear, selectedSectorPMMSY,
              selectedFinancialYearPMMSY, selectedBarChartCategory >>
Selections == << selectedAreaDetails, drilledAreaDetails >>

\* .then of fetch("/indianmap.geojson")
GeoFetchLoaded(i) ==
  /\ ~crashed
  /\ polygonData' = Some(FilterAreal(GeoFile))
  /\ metricData' = geoFetches[i].captured
  /\ lastEvent' = Event("geoLoaded", "none", FALSE)
  /\ UNCHANGED << selectedMetric, selectedScheme, Filters, mapView, selectedState,
                  error, Selections, biharGeoJson, nEvents, out >>
  /\ Effects(Remove(geoFetches, i), biharFetches, TRUE)

\* .catch of fetch("/indianmap.geojson"): !res.ok, a network error or bad JSON
GeoFetchFailed(i) ==
  /\ ~crashed
  /\ error' = "Failed to fetch GeoJSON"
  /\ lastEvent' = Event("geoFailed", "none", FALSE)
  /\ UNCHANGED << polygonData, metricData, selectedMetric, selectedScheme, Filters,
                  mapView, selectedState, Selections, biharGeoJson, nEvents, out >>
  /\ Effects(Remove(geoFetches, i), biharFetches, FALSE)

\* .then of fetch("/bihar1.geojson")
BiharFetchLoaded(i) ==
  /\ ~crashed
  /\ biharGeoJson' = Some(BiharFile)
  /\ \E seed \in 0..(MaxSeed - 1) :
       metricData' = BiharUpdate(metricData, biharFetches[i].polygonData,
                                 BiharFile, seed)
  /\ lastEvent' = Event("biharLoaded",
                        IF ~IsNull(metricData)
                           /\ BiharStateIds(metricData.val,
                                            biharFetches[i].polygonData) /= {}
                        THEN "merged" ELSE "none",
                        FALSE)
  /\ UNCHANGED << polygonData, selectedMetric, selectedScheme, Filters, mapView,
                  selectedState, error, Selections, nEvents, out >>
  /\ Effects(geoFetches, Remove(biharFetches, i), FALSE)

\* .catch of fetch("/bihar1.geojson"): console.error only
BiharFetchFailed(i) ==
  /\ ~crashed
  /\ lastEvent' = Event("biharFailed", "none", FALSE)
  /\ UNCHANGED << polygonData, metricData, selectedMetric, selectedScheme, Filters,
                  mapView, selectedState, error, Selections, biharGeoJson, nEvents,
                  out >>
  /\ Effects(geoFetches, Remove(biharFetches, i), FALSE)

\* the tree is mounted and the run has events left
CanAct == ~crashed /\ nEvents < MaxEvents

\* what every user event shares: the event is counted, no fetch completes, the
\* effects run
UserEvent(type, target, threw) ==
  /\ nEvents' = nEvents + 1
  /\ lastEvent' = Event(type, target, threw)
  /\ UNCHANGED << polygonData, metricData, error, biharGeoJson, out >>
  /\ Effects(geoFetches, biharFetches, FALSE)

\* a scheme card without the effect that resets selectedMetric
SelectSchemeKeepsMetric(scheme) ==
  /\ CanAct /\ Screen = "schemes" /\ ~IsNull(schemeTotals)
  /\ selectedScheme' = scheme
  /\ UNCHANGED << selectedMetric, Filters, mapView, selectedState, Selections >>
  /\ UserEvent("selectScheme", "none", FALSE)

\* a scheme card of SchemeSelectionView, followed by the effect that resets
\* selectedMetric
SelectScheme(scheme) ==
  /\ CanAct /\ Screen = "schemes" /\ ~IsNull(schemeTotals)
  /\ selectedScheme' = scheme
  /\ selectedMetric' = IF scheme = "PMMSY" THEN "totalProjects" ELSE "beneficiaries"
  /\ UNCHANGED << Filters, mapView, selectedState, Selections >>
  /\ UserEvent("selectScheme", "none", FALSE)

\* the "Back to Schemes" button
BackToSchemes ==
  /\ CanAct /\ Screen = "dashboard"
  /\ selectedScheme' = "null"
  /\ selectedMetric' = "beneficiaries"
  /\ UNCHANGED << Filters, mapView, selectedState, Selections >>
  /\ UserEvent("backToSchemes", "none", FALSE)

\* the metric select of the header; a select fires onChange only when its
\* value changes
SetSelectedMetric(metric) ==
  /\ CanAct /\ Screen = "dashboard"
  /\ metric \in (IF selectedScheme = "PMMSY" THEN PmmsyIndicators ELSE GenericMetrics)
  /\ metric /= selectedMetric
  /\ selectedMetric' = metric
  /\ UNCHANGED << selectedScheme, Filters, mapView, selectedState, Selections >>
  /\ UserEvent("setMetric", "none", FALSE)

\* the Gender and Year selects, shown for the schemes other than PMMSY
SetSelectedGender(gender) ==
  /\ CanAct /\ Screen = "dashboard" /\ selectedScheme /= "PMMSY"
  /\ gender /= selectedGender
  /\ selectedGender' = gender
  /\ UNCHANGED << selectedMetric, selectedScheme, selectedYear, selectedSectorPMMSY,
                  selectedFinancialYearPMMSY, selectedBarChartCategory, mapView,
                  selectedState, Selections >>
  /\ UserEvent("setGender", "none", FALSE)

SetSelectedYear(year) ==
  /\ CanAct /\ Screen = "dashboard" /\ selectedScheme /= "PMMSY"
  /\ year /= selectedYear
  /\ selectedYear' = year
  /\ UNCHANGED << selectedMetric, selectedScheme, selectedGender, selectedSectorPMMSY,
                  selectedFinancialYearPMMSY, selectedBarChartCategory, mapView,
                  selectedState, Selections >>
  /\ UserEvent("setYear", "none", FALSE)

\* the Sector and Financial Year selects, shown for PMMSY; they are given the
\* plain state setters, not the debounced ones
SetSelectedSectorPMMSY(sector) ==
  /\ CanAct /\ Screen = "dashboard" /\ selectedScheme = "PMMSY"
  /\ sector /= selectedSectorPMMSY
  /\ selectedSectorPMMSY' = sector
  /\ UNCHANGED << selectedMetric, selectedScheme, selectedGender, selectedYear,
                  selectedFinancialYearPMMSY, selectedBarChartCategory, mapView,
                  selectedState, Selections >>
  /\ UserEvent("setSector", "none", FALSE)

SetSelectedFinancialYearPMMSY(fy) ==
  /\ CanAct /\ Screen = "dashboard" /\ selectedScheme = "PMMSY"
  /\ fy /= selectedFinancialYearPMMSY
  /\ selectedFinancialYearPMMSY' = fy
  /\ UNCHANGED << selectedMetric, selectedScheme, selectedGender, selectedYear,
                  selectedSectorPMMSY, selectedBarChartCategory, mapView,
                  selectedState, Selections >>
  /\ UserEvent("setFinancialYear", "none", FALSE)

\* the category select of the top-areas bar chart
SetSelectedBarChartCategory(category) ==
  /\ CanAct /\ Screen = "dashboard"
  /\ category /= selectedBarChartCategory
  /\ selectedBarChartCategory' = category
  /\ UNCHANGED << selectedMetric, selectedScheme, selectedGender, selectedYear,
                  selectedSectorPMMSY, selectedFinancialYearPMMSY, mapView,
                  selectedState, Selections >>
  /\ UserEvent("setBarCategory", "none", FALSE)

\* the State / District / Sub-District View buttons
SetMapView(view) ==
  /\ CanAct /\ Screen = "dashboard"
  /\ mapView' = view
  /\ selectedState' = IF view = "state" THEN "null" ELSE selectedState
  /\ UNCHANGED << selectedMetric, selectedScheme, Filters, Selections >>
  /\ UserEvent("setMapView", "none", FALSE)

\* the values Math.random() can return to a handler: the handlers draw only on
\* their PMMSY branch
HandlerDraws == IF selectedScheme = "PMMSY" THEN 0..(RandDen - 1) ELSE {0}

\* a click on the national map: the map's click handler, then handleAreaClick.
\* With a null argument handleAreaClick reads areaDetails.level and throws.
ClickMap(pixel) ==
  /\ CanAct /\ MapMounted
  /\ UNCHANGED << selectedMetric, selectedScheme, Filters, mapView, selectedState,
                  drilledAreaDetails >>
  /\ LET clicked == ClickDetails(FeaturesAtPixel(pixel))
     IN IF IsNull(clicked)
        THEN /\ UNCHANGED selectedAreaDetails
             /\ UserEvent("click", "none", TRUE)
        ELSE /\ \E n1, n2 \in HandlerDraws :
                  selectedAreaDetails' = Some(AreaDetailsOf(clicked.val, n1, n2))
             /\ UserEvent("click", clicked.val.obj.id, FALSE)

\* a double click on the national map: the map's dblclick handler, then
\* handleDrillDown with the state's name
DblClickMap(pixel) ==
  /\ CanAct /\ MapMounted
  /\ UNCHANGED << selectedMetric, selectedScheme, Filters, mapView,
                  selectedAreaDetails >>
  /\ LET features == FeaturesAtPixel(pixel)
         drilled == DrillArg(features)
     IN IF IsNull(drilled)
        THEN /\ UNCHANGED << selectedState, drilledAreaDetails >>
             /\ UserEvent("dblclick", "none", FALSE)
        ELSE /\ selectedState' = StrOr(Prop(drilled.val, "name"), "Unknown Area")
             /\ \E n1, n2 \in HandlerDraws :
                  drilledAreaDetails' = Some(AreaDetailsOf(drilled.val, n1, n2))
             /\ UserEvent("dblclick", FindLevel(features, "state").val.shapeID, FALSE)

\* the close button of the area details popup
ClosePopup ==
  /\ CanAct /\ Screen = "dashboard" /\ ~IsNull(selectedAreaDetails)
  /\ selectedAreaDetails' = Null
  /\ UNCHANGED << selectedMetric, selectedScheme, Filters, mapView, selectedState,
                  drilledAreaDetails >>
  /\ UserEvent("closePopup", "none", FALSE)

\* handleBack, the back button of the drill-down panel
HandleBack ==
  /\ CanAct /\ Screen = "dashboard" /\ selectedState /= "null"
  /\ selectedState' = "null"
  /\ mapView' = "state"
  /\ UNCHANGED << selectedMetric, selectedScheme, Filters, Selections >>
  /\ UserEvent("handleBack", "none", FALSE)

Next ==
  \/ \E i \in 1..Len(geoFetches) : GeoFetchLoaded(i)
  \/ \E i \in 1..Len(geoFetches) : GeoFetchFailed(i)
  \/ \E i \in 1..Len(biharFetches) : BiharFetchLoaded(i)
  \/ \E i \in 1..Len(biharFetches) : BiharFetchFailed(i)
  \/ \E scheme \in UserSchemes : SelectScheme(scheme)
  \/ BackToSchemes
  \/ \E metric \in GenericMetrics \cup PmmsyIndicators : SetSelectedMetric(metric)
  \/ \E gender \in UserGenders : SetSelectedGender(gender)
  \/ \E year \in UserYears : SetSelectedYear(year)
  \/ \E sector \in UserSectors : SetSelectedSectorPMMSY(sector)
  \/ \E fy \in UserFinancialYears : SetSelectedFinancialYearPMMSY(fy)
  \/ \E category \in BarCategories : SetSelectedBarChartCategory(category)
  \/ \E view \in MapViews : SetMapView(view)
  \/ \E pixel \in Pixels : ClickMap(pixel)
  \/ \E pixel \in Pixels : DblClickMap(pixel)
  \/ ClosePopup
  \/ HandleBack

Spec == Init /\ [][Next]_vars

----------------------------------------------------------------------------
(* Properties of the application *)

\* the feature of the loaded geography with the given id
FeatureOf(id) ==
  polygonData.val[CHOOSE i \in 1..Len(polygonData.val) :
                    polygonData.val[i].shapeID = id]

\* the Bihar districts' values of one entry of the parent bag, in file order
ChildValues(key, mKey) ==
  SeqMap(LAMBDA d : metricData.val[d.shapeID][key][mKey], BiharFile)

\* JavaScript addition: NaN is contagious
RECURSIVE JsSum(_)
JsSum(s) ==
  IF s = << >> THEN 0
  ELSE IF Head(s) = NaN \/ JsSum(Tail(s)) = NaN THEN NaN
  ELSE Head(s) + JsSum(Tail(s))

\* C1: once the Bihar districts' bags have been merged into the store, for
\* every key and every indicator of the parent (Bihar state) bag the districts'
\* values sum exactly to the parent's value
DistrictsSumToParent ==
  (lastEvent.type = "biharLoaded" /\ lastEvent.target = "merged") =>
     \A id \in BiharStateIds(metricData.val, polygonData) :
        \A key \in DOMAIN metricData.val[id] :
           \A mKey \in DOMAIN metricData.val[id][key] :
              JsSum(ChildValues(key, mKey)) = metricData.val[id][key][mKey]

\* the features the claim of C2 expects on the map after drilling into the
\* state with the given id: the districts of that state and its own outline
DrillScope(id) ==
  {f \in Range(polygonData.val) :
     \/ f.shapeID = id
     \/ f.level = "district" /\ f.st_nm = FeatureOf(id).shapeName}

\* C2: a double click on a state feature S while the resolution is "state"
\* moves the resolution to "district" and renders exactly the districts of S
\* and the outline of S
DrillDownScopesToState ==
  [][(/\ nEvents' = nEvents + 1
      /\ lastEvent'.type = "dblclick" /\ lastEvent'.target /= "none"
      /\ mapView = "state")
       => /\ mapView' = "district"
          /\ MapMounted'
          /\ Range(filteredGeoJsonData'.val) = DrillScope(lastEvent'.target)]_vars

\* C3: a click on empty map space, or on a feature that is not of the active
\* level, clears the selection and raises no exception, whatever the scheme
EmptyClickClearsSelection ==
  (lastEvent.type = "click" /\ lastEvent.target = "none") =>
     (IsNull(selectedAreaDetails) /\ ~lastEvent.threw)

\* C4: a click on a feature of the active level emits a selection with that
\* feature's id, name and level, and with the bag the store holds for the
\* feature under the key active at the click (when it holds one)
ClickEmitsSelection ==
  (lastEvent.type = "click" /\ lastEvent.target /= "none") =>
     /\ ~IsNull(selectedAreaDetails)
     /\ LET f == FeatureOf(lastEvent.target)
            sel == selectedAreaDetails.val
        IN /\ sel.common.id = f.shapeID
           /\ sel.common.name = f.shapeName
           /\ sel.common.level = f.level
           /\ f.level = mapView
           /\ (/\ f.shapeID \in DOMAIN metricData.val
               /\ demographicKey \in DOMAIN metricData.val[f.shapeID])
                => LET bag == metricData.val[f.shapeID][demographicKey]
                   IN /\ sel.metrics = bag
                      /\ selectedScheme = "PMMSY" =>
                           \A m \in PmmsyIndicators :
                              sel.pmmsyMetrics.totals[m] = OrElse(bag[m], 0)

\* C4 witness: after the scheme, the resolution and then a district were
\* chosen, the selection carries the district's stored bag
ClickEmitsSelectionWitness ==
  /\ lastEvent.type = "click" /\ lastEvent.target /= "none"
  /\ mapView = "district"
  /\ FeatureOf(lastEvent.target).level = "district"
  /\ demographicKey \in DOMAIN metricData.val[lastEvent.target]
  /\ selectedAreaDetails.val.metrics = metricData.val[lastEvent.target][demographicKey]

\* C5 as stated: the failure of any fetch of a geography asset puts the
\* application on the error display
AnyFetchFailureShowsError ==
  lastEvent.type \in {"geoFailed", "biharFailed"} => Screen = "error"

\* C5 as amended: a failed fetch of /indianmap.geojson puts the application on
\* the error display, and no later step leaves the error display
NationalFetchFailureIsTerminal ==
  [][/\ lastEvent'.type = "geoFailed" => Screen' = "error"
     /\ Screen = "error" => Screen' = "error"]_vars

\* C5 witness: the error display is still shown after a later fetch succeeded
ErrorOutlivesLaterFetch ==
  Screen = "error" /\ lastEvent.type = "biharLoaded"

\* C7: after the initial fetch no step issues another fetch of a geography
\* asset or starts another asynchronous operation
NoFetchAfterStartup ==
  [][geoIssued' = geoIssued /\ biharIssued' = biharIssued]_vars

\* the ids the map components style: the features on the national map and the
\* Bihar districts
StyledIds ==
  (IF IsNull(filteredGeoJsonData) THEN {} ELSE AreaIds(filteredGeoJsonData.val))
    \cup (IF IsNull(biharGeoJson) THEN {} ELSE AreaIds(biharGeoJson.val))

\* C8: the value a feature is styled by is a finite non-negative number, and
\* it is 0 when the feature has no bag under the active key or the bag lacks
\* the selected indicator
StyleValueIsNonNegative ==
  Screen = "dashboard" =>
     \A id \in StyledIds :
        LET v == StyleValue(metricData, id, demographicKey, selectedMetric)
        IN /\ v >= 0
           /\ Lookup(metricData, id, demographicKey, selectedMetric) = Undefined
                => v = 0

\* C8 witness: the map is shown while a feature has no bag under the active key
StyleValueOfMissingBag ==
  /\ MapMounted
  /\ \E id \in StyledIds :
        /\ BagAt(metricData, id, demographicKey) = NoBag
        /\ StyleValue(metricData, id, demographicKey, selectedMetric) = 0

----------------------------------------------------------------------------
(* The derived views (kpis, sortedAreas, barData) as functions of the store *)

\* features of the drawn geography
MaxAreas == 13
\* value patterns of the drawn store
MaxPattern == 6

AreaNames == << "a01", "a02", "a03", "a04", "a05", "a06", "a07", "a08", "a09",
                "a10", "a11", "a12", "a13", "a14", "a15", "a16" >>

\* a geography of n features in file order: every sixth a district of the
\* first state, the others states
DrawnAreas(n) ==
  [i \in 1..n |->
     IF i % 6 = 0
     THEN Feature(AreaNames[i], AreaNames[i], "district", AreaNames[1],
                  AreaNames[i], "Polygon")
     ELSE Feature(AreaNames[i], AreaNames[i], "state", AreaNames[i], "",
                  "Polygon")]

\* the values a drawn store holds; Undefined stands for an absent entry
DrawnValues == << Undefined, 0, 5, 8 >>
DrawnValue(p, i, j) == DrawnValues[1 + ((p * (i + j) + (p \div 2) * i) % 4)]

MetricPos(m) ==
  CASE m = "beneficiaries" -> 0 [] m = "funds" -> 1 [] m = "registrations" -> 2

\* a store over the drawn geography: area i holds a bag under a key when
\* the pattern gives the key a value there, and the bag holds an indicator
\* when the pattern gives the indicator a value
DrawnStore(n, p) ==
  [id \in {AreaNames[i] : i \in 1..n} |->
     LET i == IndexOf(AreaNames, id)
         keys == {k \in NonPMMSYKeys :
                    DrawnValue(p, i, KeyPos(GenSchemes, k)) /= Undefined}
     IN [key \in keys |->
           LET j == KeyPos(GenSchemes, key)
               held == {m \in GenericMetrics :
                          DrawnValue(p, i, j + MetricPos(m)) /= Undefined}
           IN [m \in held |-> DrawnValue(p, i, j + MetricPos(m))]]]

InitViews ==
  /\ \E n \in 0..MaxAreas : \E p \in 0..(MaxPattern - 1) :
        /\ polygonData = Some(DrawnAreas(n))
        /\ metricData = Some(DrawnStore(n, p))
  /\ mockNonPMMSYData = Null /\ mockPMMSYData = Null /\ schemeTotals = Null
  /\ selectedMetric \in GenericMetrics
  /\ selectedScheme = "PMMKSS"
  /\ selectedGender = "all" /\ selectedYear = "all"
  /\ selectedSectorPMMSY = "all" /\ selectedFinancialYearPMMSY = "all"
  /\ selectedBarChartCategory \in BarCategories
  /\ mapView \in {"state", "district"}
  /\ selectedState = "null" /\ error = "null"
  /\ selectedAreaDetails = Null /\ drilledAreaDetails = Null
  /\ biharGeoJson = Null /\ globalPMMSYMetrics = ZeroGlobalMetrics
  /\ geoFetches = << >> /\ biharFetches = << >>
  /\ crashed = FALSE
  /\ lastEvent = NoEvent /\ nEvents = 0 /\ genCount = 0
  /\ geoIssued = 0 /\ biharIssued = 0
  /\ out = Null
  /\ selectedActivityPMMSY = "all" /\ pmmsyAreaSpecificMetrics = Null

ViewInputs ==
  << polygonData, metricData, mockNonPMMSYData, mockPMMSYData, schemeTotals,
     selectedMetric, selectedScheme, selectedGender, selectedYear,
     selectedSectorPMMSY, selectedFinancialYearPMMSY, selectedBarChartCategory,
     mapView, selectedState, error, selectedAreaDetails, drilledAreaDetails,
     biharGeoJson, globalPMMSYMetrics, geoFetches, biharFetches, crashed,
     lastEvent, nEvents, genCount, geoIssued, biharIssued,
     selectedActivityPMMSY, pmmsyAreaSpecificMetrics >>

\* a render evaluates the kpis memo
ApplyKpis ==
  /\ out' = Some([op |-> "kpis", kpis |-> kpis])
  /\ UNCHANGED ViewInputs

\* a render evaluates the barData memo
ApplyBarData ==
  /\ out' = Some([op |-> "barData", sortedAreas |-> sortedAreas, data |-> barData])
  /\ UNCHANGED ViewInputs

NextViews == ApplyKpis \/ ApplyBarData

SpecViews == InitViews /\ [][NextViews]_vars

\* metricData[id]?.[key]?.[metric], read off the store directly
Stored(id, key, metric) ==
  IF id \in DOMAIN metricData.val /\ key \in DOMAIN metricData.val[id]
     /\ metric \in DOMAIN metricData.val[id][key]
  THEN metricData.val[id][key][metric]
  ELSE Undefined

\* the positions, among the features of the active level, of those with a
\* defined value of the selected indicator under the active key
DefinedPositions ==
  {i \in 1..Len(ActiveFeatures) :
     Stored(ActiveFeatures[i].shapeID, demographicKey, selectedMetric) /= Undefined}

ValueAt(i) == Stored(ActiveFeatures[i].shapeID, demographicKey, selectedMetric)

\* C9: kpis uses only the defined values of the active level: average is the
\* floor of their mean, min and max are their minimum and maximum, and the
\* result is {0, 0, 0} when no value is defined
KpisSummariseDefinedValues ==
  (~IsNull(out) /\ out.val.op = "kpis") =>
     /\ ~IsNull(out.val.kpis)
     /\ LET r == out.val.kpis.val
            D == DefinedPositions
            total == SumOver(D, [i \in D |-> ValueAt(i)])
        IN IF D = {} THEN r = [average |-> 0, min |-> 0, max |-> 0]
           ELSE /\ r.average * Cardinality(D) <= total
                /\ total < (r.average + 1) * Cardinality(D)
                /\ \E i \in D : r.min = ValueAt(i)
                /\ \A i \in D : r.min <= ValueAt(i)
                /\ \E i \in D : r.max = ValueAt(i)
                /\ \A i \in D : r.max >= ValueAt(i)

\* C9 witness: kpis was computed over features some of which have a value and
\* some of which have none
KpisSkipUndefined ==
  /\ ~IsNull(out) /\ out.val.op = "kpis"
  /\ DefinedPositions /= {}
  /\ DefinedPositions /= 1..Len(ActiveFeatures)
  /\ out.val.kpis.val.min > 0

\* the overall value of the selected indicator of a feature, 0 when absent
OverallOf(id) ==
  LET v == Stored(id, <<"all", "all", "all">>, selectedMetric)
  IN IF v = Undefined THEN 0 ELSE v

\* position of the feature with the given id among those of the active level
ActivePos(id) ==
  CHOOSE i \in 1..Len(ActiveFeatures) : ActiveFeatures[i].shapeID = id

----------------------------------------------------------------------------
(* The earlier App component kept in the same file.  It has no separate mock *)
(* data effect: the callback of its geography fetch builds the metric store. *)

LegacySchemes == <<"all", "PMMKSS", "PMMSY", "KCC", "NFDP">>

LegacyKeys == {<<s, g, y>> : s \in Range(LegacySchemes), g \in Range(GenGenders),
                             y \in Range(GenYears)}

\* generateMockData of the earlier component: the same bags over five schemes
LegacyGenerateMockData(areas, seed) ==
  [id \in AreaIds(areas) |->
     LET a == LastIndexOf(areas, id)
     IN [key \in LegacyKeys |-> MockBag(LegacySchemes, seed, a, areas[a], key)]]

LegacyFeature(id, name, level, st, dist, sub, geom) ==
  [shapeID |-> id, shapeName |-> name, level |-> level, state_name |-> st,
   district_name |-> dist, subdistrict_name |-> sub, geom |-> geom]

\* the content of /indianmap.geojson as this component reads it
LegacyGeoFile ==
  << LegacyFeature("s1", "Bihar", "state", "Bihar", "", "", "MultiPolygon"),
     LegacyFeature("d1", "Patna", "district", "Bihar", "Patna", "", "Polygon"),
     LegacyFeature("p1", "Marker", "state", "", "", "", "Point") >>

\* the imported ./data/pmmsyData.json: two entries; a numeric field holds the
\* number parseFloat / parseInt reads from it, Undefined when it is absent
pmmsyData ==
  << [state |-> "Bihar", sector |-> "Inland", financialYear |-> "2023-24",
      activity |-> "Hatchery", district |-> "Patna", taluk |-> "Danapur",
      gender |-> "Male", cost |-> 7, totalOutput |-> 3,
      totalWomen |-> 1, totalMen |-> 2, directWomen |-> 1, directMen |-> 1,
      indirectWomen |-> Undefined, indirectMen |-> 1],
     [state |-> "Goa", sector |-> "Marine", financialYear |-> "2024-25",
      activity |-> "Cage Culture", district |-> "North Goa", taluk |-> "",
      gender |-> "", cost |-> Undefined, totalOutput |-> 2,
      totalWomen |-> 2, totalMen |-> 0, directWomen |-> 1, directMen |-> 0,
      indirectWomen |-> 1, indirectMen |-> 0] >>

\* String.prototype.toLowerCase on the names the data holds
ToLowerCase(str) ==
  CASE str = "Bihar" -> "bihar" [] str = "Patna" -> "patna"
    [] str = "Danapur" -> "danapur" [] str = "Goa" -> "goa"
    [] str = "North Goa" -> "north goa" [] str = "Male" -> "male"
    [] str = "Female" -> "female" [] OTHER -> str

\* entry.GENDER?.toLowerCase() || "all"
GenderOf(entry) ==
  IF ToLowerCase(entry.gender) = "" THEN "all" ELSE ToLowerCase(entry.gender)

\* the first four digits of FINANCIAL_YEAR, "all" when it has none
YearOf(entry) ==
  CASE entry.financialYear = "2023-24" -> "2023"
    [] entry.financialYear = "2024-25" -> "2024"
    [] OTHER -> "all"

\* the key under which aggregatePMMSYData files a feature, << >> for none
ShapeKey(f) ==
  IF f.level = "sub-district" /\ f.state_name /= "" /\ f.district_name /= ""
     /\ f.subdistrict_name /= ""
  THEN <<f.state_name, f.district_name, f.subdistrict_name>>
  ELSE IF f.level = "district" /\ f.state_name /= "" /\ f.district_name /= ""
  THEN <<f.state_name, f.district_name>>
  ELSE IF f.level = "state" /\ f.state_name /= "" THEN <<f.state_name>>
  ELSE << >>

\* shapeIdMap: a later feature with the same key overwrites an earlier one
shapeIdMap(features) ==
  [key \in {ShapeKey(features[i]) : i \in 1..Len(features)} \ {<< >>} |->
     features[CHOOSE i \in 1..Len(features) :
                /\ ShapeKey(features[i]) = key
                /\ \A j \in 1..Len(features) :
                      ShapeKey(features[j]) = key => j <= i].shapeID]

\* the keys of the three updateMetrics calls made for an entry
EntryKeys(entry) ==
  { <<entry.state, entry.district, entry.taluk>>,
    <<entry.state, entry.district>>,
    <<entry.state>> }

aggregatePMMSYData(rawData, features) ==
  LET map == shapeIdMap(features)
      KeyOf(entry) == <<"PMMSY", GenderOf(entry), YearOf(entry)>>
      \* the updateMetrics calls that reach a shape: entry index and map key
      Calls == {c \in (1..Len(rawData)) \X DOMAIN map :
                  c[2] \in EntryKeys(rawData[c[1]])}
      CallsOn(id, key) == {c \in Calls : map[c[2]] = id /\ KeyOf(rawData[c[1]]) = key}
  IN [id \in {map[c[2]] : c \in Calls} |->
        [key \in {KeyOf(rawData[c[1]]) : c \in {d \in Calls : map[d[2]] = id}} |->
           [beneficiaries |-> Cardinality(CallsOn(id, key)),
            funds |-> SumOver(CallsOn(id, key),
                              [c \in CallsOn(id, key) |->
                                 OrElse(rawData[c[1]].cost, 0)]),
            registrations |-> Cardinality(CallsOn(id, key))]]]

\* the mock store with the PMMSY_ entries of pmmsyMetricData written over it
generateMetricData(areas, pmmsyMetricData, seed) ==
  LET mockData == LegacyGenerateMockData(areas, seed)
      Over(shapeID) ==
        IF shapeID \in DOMAIN pmmsyMetricData
        THEN {k \in DOMAIN pmmsyMetricData[shapeID] : k[1] = "PMMSY"} ELSE {}
      Mock(shapeID) ==
        IF shapeID \in DOMAIN mockData THEN DOMAIN mockData[shapeID] ELSE {}
  IN [shapeID \in DOMAIN mockData \cup DOMAIN pmmsyMetricData |->
        [key \in Mock(shapeID) \cup Over(shapeID) |->
           IF key \in Over(shapeID) THEN pmmsyMetricData[shapeID][key]
           ELSE mockData[shapeID][key]]]

\* getShapeIDForArea: the most specific feature the names match, "" for none
getShapeIDForArea(features, stateName, districtName, subdistrictName) ==
  LET Same(a, b) == ToLowerCase(a) = ToLowerCase(b)
      sub == SelectSeq(features, LAMBDA f :
               /\ f.level = "sub-district" /\ Same(f.state_name, stateName)
               /\ Same(f.district_name, districtName)
               /\ Same(f.subdistrict_name, subdistrictName))
      dist == SelectSeq(features, LAMBDA f :
               /\ f.level = "district" /\ Same(f.state_name, stateName)
               /\ Same(f.district_name, districtName))
      st == SelectSeq(features, LAMBDA f :
               f.level = "state" /\ Same(f.state_name, stateName))
  IN IF stateName /= "" /\ districtName /= "" /\ subdistrictName /= ""
        /\ sub /= << >>
     THEN Head(sub).shapeID
     ELSE IF stateName /= "" /\ districtName /= "" /\ dist /= << >>
     THEN Head(dist).shapeID
     ELSE IF stateName /= "" /\ st /= << >> THEN Head(st).shapeID
     ELSE ""

\* the sums aggregatePMMSYDashboardData keeps over a list of entries
EntrySums(entries) ==
  LET Sum(F(_)) == SeqSum(SeqMap(F, entries))
  IN [totalProjects |-> Len(entries),
      totalInvestment |-> Sum(LAMBDA e : OrElse(e.cost, 0)),
      fishOutput |-> Sum(LAMBDA e : OrElse(e.totalOutput, 0)),
      totalEmploymentGenerated |->
        Sum(LAMBDA e : OrElse(e.totalWomen, 0) + OrElse(e.totalMen, 0)),
      directEmploymentMen |-> Sum(LAMBDA e : OrElse(e.directMen, 0)),
      directEmploymentWomen |-> Sum(LAMBDA e : OrElse(e.directWomen, 0)),
      indirectEmploymentMen |-> Sum(LAMBDA e : OrElse(e.indirectMen, 0)),
      indirectEmploymentWomen |-> Sum(LAMBDA e : OrElse(e.indirectWomen, 0))]

\* the entries of a Map that counts names, in insertion order
CountByName(names) ==
  SeqMap(LAMBDA nm : [name |-> nm,
                      value |-> Len(SelectSeq(names, LAMBDA x : x = nm))],
         Dedupe(names))

aggregatePMMSYDashboardData(rawData, features, sector, activity, financialYear) ==
  LET filtered == SelectSeq(rawData, LAMBDA e :
                    /\ sector = "all" \/ e.sector = sector
                    /\ activity = "all" \/ e.activity = activity
                    /\ financialYear = "all" \/ e.financialYear = financialYear)
      AreaOf(e) == getShapeIDForArea(features, e.state, e.district, e.taluk)
      areas == {AreaOf(filtered[i]) : i \in 1..Len(filtered)} \ {""}
  IN [global |-> [sums |-> EntrySums(filtered),
                  projectsByStateUT |->
                    CountByName(SeqMap(LAMBDA e : e.state, filtered)),
                  sectorDistribution |->
                    CountByName(SeqMap(LAMBDA e : e.sector, filtered))],
      areaSpecific |->
        [id \in areas |->
           EntrySums(SelectSeq(filtered, LAMBDA e : AreaOf(e) = id))]]

\* the options of the three PMMSY selects: "all" and the values in the data
LegacySectors == {"all"} \cup {pmmsyData[i].sector : i \in 1..Len(pmmsyData)}
LegacyActivities == {"all"} \cup {pmmsyData[i].activity : i \in 1..Len(pmmsyData)}
LegacyFinancialYears ==
  {"all"} \cup {pmmsyData[i].financialYear : i \in 1..Len(pmmsyData)}

LegacyScreen ==
  IF error /= "null" THEN "error"
  ELSE IF \/ IsNull(polygonData) \/ IsNull(metricData)
          \/ /\ selectedScheme = "PMMSY"
             /\ IsNull(globalPMMSYMetrics) \/ IsNull(pmmsyAreaSpecificMetrics)
  THEN "loading"
  ELSE "dashboard"

\* the filters a run of the fetch effect closes over
LegacyDeps ==
  << selectedSectorPMMSY, selectedActivityPMMSY, selectedFinancialYearPMMSY >>

\* after the first render and its effect: the fetch is in flight
InitLegacy ==
  /\ polygonData = Null /\ metricData = Null
  /\ mockNonPMMSYData = Null /\ mockPMMSYData = Null /\ schemeTotals = Null
  /\ selectedMetric = "beneficiaries" /\ selectedScheme = "all"
  /\ selectedGender = "all" /\ selectedYear = "all"
  /\ selectedSectorPMMSY = "all" /\ selectedFinancialYearPMMSY = "all"
  /\ selectedActivityPMMSY = "all"
  /\ selectedBarChartCategory = "scheme" /\ mapView = "state"
  /\ selectedState = "null" /\ error = "null"
  /\ selectedAreaDetails = Null /\ drilledAreaDetails = Null
  /\ biharGeoJson = Null
  /\ globalPMMSYMetrics = Null /\ pmmsyAreaSpecificMetrics = Null
  /\ geoFetches = << [captured |-> <<"all", "all", "all">>] >>
  /\ biharFetches = << >>
  /\ crashed = FALSE
  /\ lastEvent = NoEvent /\ nEvents = 0 /\ genCount = 0
  /\ geoIssued = 1 /\ biharIssued = 0
  /\ out = Null

LegacyUntouched ==
  << mockNonPMMSYData, mockPMMSYData, schemeTotals, selectedMetric,
     selectedGender, selectedYear, selectedBarChartCategory, mapView,
     selectedState, selectedAreaDetails, drilledAreaDetails, biharGeoJson,
     biharFetches, crashed, biharIssued, out >>

\* .then of the fetch: the store is generated anew on every completion
LegacyFetchLoaded(i) ==
  /\ LET areas == FilterAreal(LegacyGeoFile)
         deps == geoFetches[i].captured
         dashboard == aggregatePMMSYDashboardData(pmmsyData, areas, deps[1],
                                                  deps[2], deps[3])
     IN /\ polygonData' = Some(areas)
        /\ \E seed \in 0..(MaxSeed - 1) :
              metricData' =
                Some(generateMetricData(areas, aggregatePMMSYData(pmmsyData, areas),
                                        seed))
        /\ globalPMMSYMetrics' = Some(dashboard.global)
        /\ pmmsyAreaSpecificMetrics' = Some(dashboard.areaSpecific)
  /\ genCount' = genCount + 1
  /\ geoFetches' = Remove(geoFetches, i)
  /\ lastEvent' = Event("geoLoaded", "none", FALSE)
  /\ UNCHANGED << selectedScheme, LegacyDeps, error, nEvents, geoIssued,
                  LegacyUntouched >>

\* .catch of the fetch
LegacyFetchFailed(i) ==
  /\ error' = "Failed to fetch GeoJSON"
  /\ geoFetches' = Remove(geoFetches, i)
  /\ lastEvent' = Event("geoFailed", "none", FALSE)
  /\ UNCHANGED << polygonData, metricData, globalPMMSYMetrics,
                  pmmsyAreaSpecificMetrics, selectedScheme, LegacyDeps, nEvents,
                  genCount, geoIssued, LegacyUntouched >>

LegacyCanAct == LegacyScreen = "dashboard" /\ nEvents < MaxEvents

\* the Scheme select
LegacySetSelectedScheme(scheme) ==
  /\ LegacyCanAct /\ scheme /= selectedScheme
  /\ selectedScheme' = scheme
  /\ nEvents' = nEvents + 1
  /\ lastEvent' = Event("selectScheme", "none", FALSE)
  /\ UNCHANGED << polygonData, metricData, globalPMMSYMetrics,
                  pmmsyAreaSpecificMetrics, LegacyDeps, error, geoFetches,
                  genCount, geoIssued, LegacyUntouched >>

\* a PMMSY select changes one of the effect's dependencies: the effect runs
\* again and issues a fetch
LegacySetFilter(type, sector, activity, fy) ==
  /\ LegacyCanAct /\ selectedScheme = "PMMSY"
  /\ << sector, activity, fy >> /= LegacyDeps
  /\ Len(geoFetches) < MaxInFlight
  /\ selectedSectorPMMSY' = sector
  /\ selectedActivityPMMSY' = activity
  /\ selectedFinancialYearPMMSY' = fy
  /\ geoFetches' = Append(geoFetches, [captured |-> << sector, activity, fy >>])
  /\ geoIssued' = geoIssued + 1
  /\ nEvents' = nEvents + 1
  /\ lastEvent' = Event(type, "none", FALSE)
  /\ UNCHANGED << polygonData, metricData, globalPMMSYMetrics,
                  pmmsyAreaSpecificMetrics, selectedScheme, error, genCount,
                  LegacyUntouched >>

LegacySetSelectedSectorPMMSY(sector) ==
  LegacySetFilter("setSector", sector, selectedActivityPMMSY,
                  selectedFinancialYearPMMSY)

LegacySetSelectedActivityPMMSY(activity) ==
  LegacySetFilter("setActivity", selectedSectorPMMSY, activity,
                  selectedFinancialYearPMMSY)

LegacySetSelectedFinancialYearPMMSY(fy) ==
  LegacySetFilter("setFinancialYear", selectedSectorPMMSY, selectedActivityPMMSY, fy)

NextLegacy ==
  \/ \E i \in 1..Len(geoFetches) : LegacyFetchLoaded(i)
  \/ \E i \in 1..Len(geoFetches) : LegacyFetchFailed(i)
  \/ \E scheme \in Range(LegacySchemes) : LegacySetSelectedScheme(scheme)
  \/ \E sector \in LegacySectors : LegacySetSelectedSectorPMMSY(sector)
  \/ \E activity \in LegacyActivities : LegacySetSelectedActivityPMMSY(activity)
  \/ \E fy \in LegacyFinancialYears : LegacySetSelectedFinancialYearPMMSY(fy)

SpecLegacy == InitLegacy /\ [][NextLegacy]_vars

\* C6: the synthetic metric store is generated exactly once: after the first
\* generation no filter change and no further completion of the geography
\* fetch generates it again
GeneratedOnce == genCount <= 1

----------------------------------------------------------------------------
(* The charts as functions of the geography, the stores and the filters *)

\* the options of the Gender, Year, Sector and Financial Year selects
GenderOptions == Range(GenGenders)
YearOptions == Range(GenYears)
SectorOptions == {"all", "Inland", "Marine"}
FinancialYearOptions == {"all", "2021", "2022", "2023", "2024"}

\* the dashboard of a scheme after both stores were generated and the
\* geography fetch that followed the last filter change has completed
InitCharts ==
  /\ \E seed \in 0..(MaxSeed - 1) :
        /\ polygonData = Some(FilterAreal(GeoFile))
        /\ mockNonPMMSYData = Some(generateMockData(polygonData.val, seed))
        /\ mockPMMSYData = Some(generateMockPMMSYData(polygonData.val, seed))
  /\ schemeTotals = Some(SchemeTotalsOf(mockNonPMMSYData.val, mockPMMSYData.val))
  /\ selectedScheme \in UserSchemes
  /\ selectedGender \in GenderOptions
  /\ IF selectedScheme = "PMMSY"
     THEN /\ selectedMetric \in PmmsyIndicators
          /\ selectedYear = "all"
          /\ selectedSectorPMMSY \in SectorOptions
          /\ selectedFinancialYearPMMSY \in FinancialYearOptions
     ELSE /\ selectedMetric \in GenericMetrics
          /\ selectedYear \in YearOptions
          /\ selectedSectorPMMSY = "all"
          /\ selectedFinancialYearPMMSY = "all"
  /\ metricData = combinedMetricData
  /\ selectedBarChartCategory \in BarCategories
  /\ mapView \in {"state", "district"}
  /\ selectedState = "null" /\ error = "null"
  /\ selectedAreaDetails = Null /\ drilledAreaDetails = Null
  /\ biharGeoJson = Null /\ globalPMMSYMetrics = ZeroGlobalMetrics
  /\ geoFetches = << >> /\ biharFetches = << >>
  /\ crashed = FALSE
  /\ lastEvent = NoEvent /\ nEvents = 0 /\ genCount = 1
  /\ geoIssued = 0 /\ biharIssued = 0
  /\ out = Null
  /\ selectedActivityPMMSY = "all" /\ pmmsyAreaSpecificMetrics = Null

\* a render evaluates the memo behind TopAreasBarChart
ApplyTopAreas ==
  /\ out' = Some([op |-> "topAreas",
                  rows |-> TopAreasRows,
                  keys |-> IF selectedScheme = "PMMSY" THEN pmmsyBarData.keys
                           ELSE BarKeys,
                  data |-> IF selectedScheme = "PMMSY" THEN pmmsyBarData.data
                           ELSE barData])
  /\ UNCHANGED ViewInputs

\* a render evaluates the pieData memo
ApplyPieData ==
  /\ out' = Some([op |-> "pieData", pieData |-> pieData])
  /\ UNCHANGED ViewInputs

\* the values next to the limits of the brackets of an indicator
\* the color fields of the bracket list of a metric, in the order of the list
bracketColors(metric) ==
  CASE metric \in {"beneficiaries", "totalProjects"} ->
         << "#6366f1", "#8b5cf6", "#a78bfa", "#c4b5fd" >>
    [] metric \in {"funds", "totalInvestment"} ->
         << "#059669", "#10b981", "#34d399", "#6ee7b7" >>
    [] metric \in {"registrations", "fishOutput"} ->
         << "#f97316", "#fb923c", "#fdba74", "#fed7aa" >>
    [] OTHER -> << >>

\* the chain of comparisons of getColor for one metric; a value that is not
\* a number, and NaN, pass no comparison
ColorSteps(value, t1, t2, t3, c1, c2, c3, c4) ==
  IF value >= t1 THEN c1
  ELSE IF value >= t2 THEN c2
  ELSE IF value >= t3 THEN c3
  ELSE c4

\* getColor comparing with > where the code compares with >=
getColorAbove(metric, value) ==
  LET Step(t1, t2, t3, cs) ==
        IF value > t1 THEN cs[1] ELSE IF value > t2 THEN cs[2]
        ELSE IF value > t3 THEN cs[3] ELSE cs[4]
  IN IF bracketColors(metric) = << >> THEN "#6b7280"
     ELSE Step(brackets(metric)[1].min, brackets(metric)[2].min,
               brackets(metric)[3].min, bracketColors(metric))

\* getColor for a numeric value (the fill colour of a feature)
getColor(metric, value) ==
  CASE metric = "beneficiaries" ->
         ColorSteps(value, 4000, 3000, 2000,
                    "#6366f1", "#8b5cf6", "#a78bfa", "#c4b5fd")
    [] metric = "funds" ->
         ColorSteps(value, 8000000, 5000000, 3000000,
                    "#059669", "#10b981", "#34d399", "#6ee7b7")
    [] metric = "registrations" ->
         ColorSteps(value, 8000, 6000, 4000,
                    "#f97316", "#fb923c", "#fdba74", "#fed7aa")
    [] metric = "totalProjects" ->
         ColorSteps(value, 80, 50, 30, "#6366f1", "#8b5cf6", "#a78bfa", "#c4b5fd")
    [] metric = "totalInvestment" ->
         ColorSteps(value, 4000000, 2500000, 1000000,
                    "#059669", "#10b981", "#34d399", "#6ee7b7")
    [] metric = "fishOutput" ->
         ColorSteps(value, 150, 100, 50, "#f97316", "#fb923c", "#fdba74", "#fed7aa")
    [] OTHER -> "#6b7280"

BracketProbes(metric) ==
  UNION {{b.min - 1, b.min, b.min + 1} : b \in Range(brackets(metric))} \cap Nat

\* pieData classifies one value of the selected indicator
ApplyBracket ==
  /\ \E value \in BracketProbes(selectedMetric) :
        out' = Some([op |-> "bracket", value |-> value,
                     index |-> FindBracket(brackets(selectedMetric), value),
                     color |-> getColor(selectedMetric, value)])
  /\ UNCHANGED ViewInputs

NextCharts == ApplyTopAreas \/ ApplyPieData \/ ApplyBracket

SpecCharts == InitCharts /\ [][NextCharts]_vars

\* the ranked features the chart would show under other gender, year,
\* sector and financial-year selections, everything else as it is
RankedUnder(gender, year, sector, fy) ==
  SeqMap(LAMBDA r : r.id,
         IF selectedScheme = "PMMSY"
         THEN PmmsySortedAreas(mockPMMSYData.val, ActiveFeatures, gender, fy, sector,
                               selectedMetric)
         ELSE sortedAreas)

\* C11: the set and order of the features in the top-N ranking does not depend
\* on the gender, year, sector or financial-year selection: under every other
\* choice of these selections the ranked features are the same
RankingIgnoresFilters ==
  (~IsNull(out) /\ out.val.op = "topAreas") =>
     \A g \in GenderOptions, y \in YearOptions, s \in SectorOptions,
        fy \in FinancialYearOptions :
        RankedUnder(g, y, s, fy) = SeqMap(LAMBDA r : r.id, out.val.rows)

\* the key the current filters give when the dimension of the chart's
\* secondary category is replaced by the member m
SwappedKey(m) ==
  IF selectedScheme = "PMMSY"
  THEN CASE selectedBarChartCategory = "gender" ->
              <<"PMMSY", m, selectedFinancialYearPMMSY, selectedSectorPMMSY>>
         [] selectedBarChartCategory = "year" ->
              <<"PMMSY", selectedGender, m, selectedSectorPMMSY>>
         [] selectedBarChartCategory = "scheme" ->
              <<"PMMSY", selectedGender, selectedFinancialYearPMMSY, m>>
  ELSE CASE selectedBarChartCategory = "gender" -> <<selectedScheme, m, selectedYear>>
         [] selectedBarChartCategory = "year" -> <<selectedScheme, selectedGender, m>>
         [] selectedBarChartCategory = "scheme" -> <<m, selectedGender, selectedYear>>

\* the selected indicator the chart's store holds for a feature under a key,
\* 0 when the store has no such bag or the bag no such indicator
StoredOrZero(id, key) ==
  LET store == IF selectedScheme = "PMMSY" THEN mockPMMSYData.val ELSE metricData.val
  IN IF id \in DOMAIN store /\ key \in DOMAIN store[id]
        /\ selectedMetric \in DOMAIN store[id][key]
     THEN store[id][key][selectedMetric]
     ELSE 0

\* C12: for each row of the top-N chart and each member m of the secondary
\* category, the sub-value is the selected indicator under the key of the
\* current filters with only that category's dimension replaced by m, and 0
\* when there is no such bag
SubValuesSwapOneDimension ==
  (~IsNull(out) /\ out.val.op = "topAreas") =>
     \A r \in 1..Len(out.val.rows) : \A m \in Range(out.val.keys) :
        out.val.data[r].values[m] = StoredOrZero(out.val.rows[r].id, SwappedKey(m))

\* does the bracket's range [min, max) hold the value; an open-ended bracket
\* has no upper limit
Holds(b, value) == b.min <= value /\ (b.max = Infinity \/ value < b.max)

\* a value is counted into exactly one bracket, the first whose range holds it
CountedOnce(bs, value, index) ==
  /\ index \in 1..Len(bs)
  /\ Holds(bs[index], value)
  /\ \A j \in 1..Len(bs) : Holds(bs[j], value) => j = index

\* the counts of pieData add up to the number of defined values
CountsAddUp ==
  (~IsNull(out) /\ out.val.op = "pieData") =>
     /\ Len(out.val.pieData) = Len(brackets(selectedMetric))
     /\ SeqSum(SeqMap(LAMBDA c : c.value, out.val.pieData)) = Cardinality(DefinedPositions)

----------------------------------------------------------------------------
(* Properties of the map *)

\* C14: switching the resolution from "state" to "district" makes the map
\* render exactly the district features and the state features of the loaded
\* geography, and changes no filter selection
ViewToggleShowsDistricts ==
  [][(/\ lastEvent'.type = "setMapView" /\ nEvents' = nEvents + 1
      /\ mapView = "state" /\ mapView' = "district")
       => /\ MapMounted'
          /\ Range(filteredGeoJsonData'.val) =
               {f \in Range(polygonData'.val) : f.level \in {"district", "state"}}
          /\ UNCHANGED << selectedScheme, selectedGender, selectedYear,
                          selectedSectorPMMSY, selectedFinancialYearPMMSY,
                          selectedMetric, selectedBarChartCategory >>]_vars

\* setPolygonData was called on this step: the Bihar fetch effect, whose only
\* dependency is polygonData, has run again
PolygonDataSet == biharIssued' = biharIssued + 1

\* the feature update effect of the map component runs after this step: the
\* map has just been mounted, or one of its dependencies geoJsonData (the memo
\* over polygonData, mapView and selectedState), isDrilledDown and mapView has
\* changed
FeatureUpdateRuns ==
  /\ MapMounted'
  /\ \/ ~MapMounted
     \/ PolygonDataSet
     \/ mapView' /= mapView
     \/ selectedState' /= selectedState

\* the effect's condition to fit the view to the extent of the features
FitsExtent(features, isDrilledDown, view) ==
  Len(features) > 0 /\ (isDrilledDown \/ view = "state")

\* the view of a map that was already mounted is fitted again on this step
Refit ==
  /\ MapMounted
  /\ FeatureUpdateRuns
  /\ FitsExtent(filteredGeoJsonData'.val, selectedState' /= "null", mapView')

\* C15: the view of the map is fitted again only on a step that drills down
\* or returns to the top-level resolution; steps that follow a change of
\* scheme, gender, year, sector, financial year or indicator never fit it
RefitOnlyOnResolutionChange ==
  [][Refit => \/ (selectedState = "null" /\ selectedState' /= "null")
              \/ (selectedState /= "null" /\ selectedState' = "null")
              \/ (mapView /= "state" /\ mapView' = "state")]_vars

----------------------------------------------------------------------------
(* Properties of the filters *)

\* C16: a change made through the Sector or the Financial Year select is
\* debounced: the change event itself writes no filter state (the value is
\* applied once, after the delay, by the timer), so that of several changes
\* that follow each other no intermediate value is ever applied
SelectorChangesAreDebounced ==
  [][(/\ nEvents' = nEvents + 1
      /\ lastEvent'.type \in {"setSector", "setFinancialYear"})
       => UNCHANGED << selectedSectorPMMSY, selectedFinancialYearPMMSY >>]_vars

----------------------------------------------------------------------------
(* Properties of the derived views *)

\* the three inputs of the derived views: the feature set, the generated
\* metric stores (metricData is itself derived from them and is not read by
\* the aggregation) and the filter state
ViewInputsOfApp ==
  << polygonData, mockNonPMMSYData, mockPMMSYData,
     selectedScheme, selectedGender, selectedYear, selectedSectorPMMSY,
     selectedFinancialYearPMMSY, selectedMetric, selectedBarChartCategory,
     mapView, selectedState >>

\* C17: the derived views are deterministic functions of the feature set, the
\* metric store and the filter state: a step that recomputes the
\* scheme-specific totals of the KPIs from the same three inputs yields the
\* same totals
DerivedViewsAreDeterministic ==
  [][(selectedScheme = "PMMSY" /\ ViewInputsOfApp' = ViewInputsOfApp)
       => globalPMMSYMetrics' = globalPMMSYMetrics]_vars

\* C18: after any load, every stored feature collection holds only features
\* whose geometry is a Polygon or a MultiPolygon
StoredFeaturesAreAreal ==
  /\ ~IsNull(polygonData) => \A f \in Range(polygonData.val) : IsAreal(f)
  /\ ~IsNull(biharGeoJson) => \A f \in Range(biharGeoJson.val) : IsAreal(f)

----------------------------------------------------------------------------
(* The area details popup over the selections the dashboard makes *)

\* the dashboard of a scheme after the stores were generated and the
\* geography was loaded, before any selection
InitPopup ==
  /\ \E seed \in 0..(MaxSeed - 1) :
        /\ polygonData = Some(FilterAreal(GeoFile))
        /\ mockNonPMMSYData = Some(generateMockData(polygonData.val, seed))
        /\ mockPMMSYData = Some(generateMockPMMSYData(polygonData.val, seed))
  /\ schemeTotals = Some(SchemeTotalsOf(mockNonPMMSYData.val, mockPMMSYData.val))
  /\ selectedScheme \in UserSchemes
  /\ selectedMetric = IF selectedScheme = "PMMSY" THEN "totalProjects"
                      ELSE "beneficiaries"
  /\ selectedGender = "all" /\ selectedYear = "all"
  /\ selectedSectorPMMSY = "all" /\ selectedFinancialYearPMMSY = "all"
  /\ metricData \in {combinedMetricData, Some(mockNonPMMSYData.val)}
  /\ selectedBarChartCategory = "scheme"
  /\ mapView \in {"state", "district"}
  /\ selectedState = "null" /\ error = "null"
  /\ selectedAreaDetails = Null /\ drilledAreaDetails = Null
  /\ biharGeoJson = Null /\ globalPMMSYMetrics = ZeroGlobalMetrics
  /\ geoFetches = << >> /\ biharFetches = << >>
  /\ crashed = FALSE
  /\ lastEvent = NoEvent /\ nEvents = 0 /\ genCount = 1
  /\ geoIssued = 0 /\ biharIssued = 0
  /\ out = Null
  /\ selectedActivityPMMSY = "all" /\ pmmsyAreaSpecificMetrics = Null

\* what the actions on the popup leave alone
PopupUntouched ==
  << polygonData, mockNonPMMSYData, mockPMMSYData, schemeTotals, selectedGender,
     selectedYear, selectedSectorPMMSY, selectedFinancialYearPMMSY,
     selectedBarChartCategory, mapView, selectedState, error, drilledAreaDetails,
     biharGeoJson, globalPMMSYMetrics, geoFetches, biharFetches, lastEvent,
     nEvents, genCount, geoIssued, biharIssued, selectedActivityPMMSY,
     pmmsyAreaSpecificMetrics >>

\* a click on a feature of the map: handleAreaClick stores the selection
PopupAreaClick(pixel) ==
  /\ ~crashed /\ MapMounted
  /\ ~IsNull(ClickDetails(FeaturesAtPixel(pixel)))
  /\ \E n1, n2 \in HandlerDraws :
        selectedAreaDetails' =
          Some(AreaDetailsOf(ClickDetails(FeaturesAtPixel(pixel)).val, n1, n2))
  /\ UNCHANGED << selectedScheme, selectedMetric, metricData, out >>
  /\ UNCHANGED PopupUntouched
  /\ crashed' = RenderThrows'

\* the close button of the popup
PopupClose ==
  /\ ~crashed /\ Screen = "dashboard" /\ ~IsNull(selectedAreaDetails)
  /\ selectedAreaDetails' = Null
  /\ UNCHANGED << selectedScheme, selectedMetric, metricData, out >>
  /\ UNCHANGED PopupUntouched
  /\ crashed' = RenderThrows'

\* the "Back to Schemes" button: the selection is kept
PopupBackToSchemes ==
  /\ ~crashed /\ Screen = "dashboard"
  /\ selectedScheme' = "null"
  /\ selectedMetric' = "beneficiaries"
  /\ UNCHANGED << selectedAreaDetails, metricData, out >>
  /\ UNCHANGED PopupUntouched
  /\ crashed' = RenderThrows'

\* a scheme card: the selection is kept
PopupSelectScheme(scheme) ==
  /\ ~crashed /\ Screen = "schemes"
  /\ selectedScheme' = scheme
  /\ selectedMetric' = IF scheme = "PMMSY" THEN "totalProjects" ELSE "beneficiaries"
  /\ UNCHANGED << selectedAreaDetails, metricData, out >>
  /\ UNCHANGED PopupUntouched
  /\ crashed' = RenderThrows'

\* the geography fetch issued by the last change completes: setMetricData
PopupGeoLoaded ==
  /\ ~crashed /\ metricData /= combinedMetricData
  /\ metricData' = combinedMetricData
  /\ UNCHANGED << selectedScheme, selectedMetric, selectedAreaDetails, out >>
  /\ UNCHANGED PopupUntouched
  /\ crashed' = RenderThrows'

\* a render of the dashboard evaluates AreaDetailsPopup
RenderPopup ==
  /\ selectedScheme /= "null"
  /\ out' = Some([op |-> "popup", details |-> selectedAreaDetails,
                  scheme |-> selectedScheme,
                  rendered |-> AreaDetailsPopup(selectedAreaDetails, selectedScheme)])
  /\ UNCHANGED << selectedScheme, selectedMetric, selectedAreaDetails, metricData,
                  crashed >>
  /\ UNCHANGED PopupUntouched

NextPopup ==
  \/ \E pixel \in Pixels : PopupAreaClick(pixel)
  \/ PopupClose
  \/ PopupBackToSchemes
  \/ \E scheme \in UserSchemes : PopupSelectScheme(scheme)
  \/ PopupGeoLoaded
  \/ RenderPopup

SpecPopup == InitPopup /\ [][NextPopup]_vars

\* C19: the popup renders without an exception for every selection and
\* scheme: hidden when the selection is null, the PMMSY branch when the scheme
\* is PMMSY and the selection carries pmmsyMetrics, otherwise the generic
\* branch, with "N/A" in every field when the selection has no generic bag
PopupRendersEverySelection ==
  (~IsNull(out) /\ out.val.op = "popup") =>
     LET d == out.val.details
         r == out.val.rendered
     IN /\ r.branch /= "throws"
        /\ r.branch = "hidden" <=> IsNull(d)
        /\ r.branch = "PMMSY"
             <=> (/\ ~IsNull(d) /\ out.val.scheme = "PMMSY"
                  /\ "pmmsyMetrics" \in DOMAIN d.val)
        /\ (r.branch = "generic" /\ d.val.metrics = NoBag)
             => \A i \in 1..Len(r.fields) : r.fields[i] = NotAvailable

----------------------------------------------------------------------------
(* The style function of the map *)

\* what the style function returns: a fill and a stroke, or Null for a feature
\* that is not drawn
Filled(value, stroke) == Some([fill |-> "getColor", value |-> value, stroke |-> stroke])
Outline(stroke) == Some([fill |-> "transparent", value |-> 0, stroke |-> stroke])

\* the style function with the district view filling the states as well
FeatureStyleFillsStates(f, view) ==
  LET value == StyleValue(metricData, f.shapeID, demographicKey, selectedMetric)
  IN IF f.level = view \/ f.level = "state" THEN Filled(value, "#17202a")
     ELSE IF view = "sub-district" /\ f.level = "district" THEN Outline("#273746")
     ELSE Null

\* the function handed to vectorLayer.setStyle
FeatureStyle(f, view) ==
  LET value == StyleValue(metricData, f.shapeID, demographicKey, selectedMetric)
  IN IF view = "state"
     THEN IF f.level = "state" THEN Filled(value, "#17202a") ELSE Null
     ELSE IF view = "district"
     THEN IF f.level = "district" THEN Filled(value, "#fcf3cf")
          ELSE IF f.level = "state" THEN Outline("#17202a")
          ELSE Null
     ELSE IF f.level = "sub-district" THEN Filled(value, "#fcf3cf")
          ELSE IF f.level = "district" THEN Outline("#273746")
          ELSE IF f.level = "state" THEN Outline("#17202a")
          ELSE Null

\* what the map draws for a stored feature: its style if the feature is in
\* the collection handed to the map, Null otherwise
Drawn(f) ==
  IF f \in Range(filteredGeoJsonData.val) THEN FeatureStyle(f, mapView) ELSE Null

\* the levels, from the highest to the lowest
Levels == << "state", "district", "sub-district" >>

\* C20: on the map, a feature is filled with its metric colour if and only if
\* its level is the active resolution; a feature of a higher level is drawn
\* with a transparent fill and an outline; a feature of a lower level is not
\* drawn
LevelDecidesStyle ==
  MapMounted =>
    \A f \in Range(polygonData.val) :
       LET style == Drawn(f)
       IN /\ (~IsNull(style) /\ style.val.fill = "getColor") <=> f.level = mapView
          /\ IndexOf(Levels, f.level) < IndexOf(Levels, mapView)
               => ~IsNull(style) /\ style.val.fill = "transparent"
          /\ IndexOf(Levels, f.level) > IndexOf(Levels, mapView) => IsNull(style)

\* C20 witness: the sub-district view draws a sub-district filled and a
\* district and a state as outlines
LevelDecidesStyleWitness ==
  /\ MapMounted /\ mapView = "sub-district"
  /\ \E f, g, h \in Range(polygonData.val) :
        /\ f.level = "sub-district" /\ Drawn(f).val.fill = "getColor"
        /\ g.level = "district" /\ Drawn(g).val.fill = "transparent"
        /\ h.level = "state" /\ Drawn(h).val.fill = "transparent"

----------------------------------------------------------------------------
(* The tooltip of the map *)

\* featureToShowTooltip of the pointermove handler
featureToShowTooltip(features, currentMapView) ==
  LET first == IF currentMapView \in {"sub-district", "district"}
               THEN FindLevel(features, currentMapView) ELSE Null
  IN IF IsNull(first) /\ currentMapView = "state"
     THEN FindLevel(features, "state") ELSE first

\* the label the tooltip and the popup give to a level
TypeLabel(level) ==
  IF level = "state" THEN "State"
  ELSE IF level = "district" THEN "District" ELSE "Sub-District"

\* the metric line of the tooltip: Null when the tooltip has no such line
MetricLine(f) ==
  Some([name |-> selectedMetric,
        text |-> formatMetricValue(selectedMetric,
                                   StyleValue(metricData, f.shapeID, demographicKey,
                                              selectedMetric))])

\* the tooltip with the metric line at every level
TooltipWithValue(pixel) ==
  LET found == featureToShowTooltip(FeaturesAtPixel(pixel), mapView)
  IN IF IsNull(found) \/ found.val.geom = "Point" THEN Null
     ELSE Some([name |-> IF found.val.shapeName = "" THEN "Unknown Area"
                         ELSE found.val.shapeName,
                type |-> TypeLabel(found.val.level),
                metric |-> MetricLine(found.val),
                officer |-> OfficerOf(found.val.shapeID, "N/A")])

\* what the pointermove handler leaves on the map for a pixel: Null for a
\* hidden tooltip (display "none"), else the lines of the tooltip
Tooltip(pixel) ==
  LET found == featureToShowTooltip(FeaturesAtPixel(pixel), mapView)
  IN IF IsNull(found) \/ found.val.geom = "Point" THEN Null
     ELSE Some([name |-> IF found.val.shapeName = "" THEN "Unknown Area"
                         ELSE found.val.shapeName,
                type |-> TypeLabel(found.val.level),
                metric |-> IF found.val.level /= "state"
                           THEN MetricLine(found.val) ELSE Null,
                officer |-> OfficerOf(found.val.shapeID, "N/A")])

\* the map of a scheme's dashboard after the load, at any resolution
InitTooltip ==
  /\ \E seed \in 0..(MaxSeed - 1) :
        /\ polygonData = Some(FilterAreal(GeoFile))
        /\ mockNonPMMSYData = Some(generateMockData(polygonData.val, seed))
        /\ mockPMMSYData = Some(generateMockPMMSYData(polygonData.val, seed))
  /\ schemeTotals = Some(SchemeTotalsOf(mockNonPMMSYData.val, mockPMMSYData.val))
  /\ selectedScheme \in UserSchemes
  /\ selectedMetric \in IF selectedScheme = "PMMSY" THEN PmmsyIndicators
                        ELSE GenericMetrics
  /\ selectedGender \in UserGenders /\ selectedYear = "all"
  /\ selectedSectorPMMSY = "all" /\ selectedFinancialYearPMMSY = "all"
  /\ metricData = combinedMetricData
  /\ selectedBarChartCategory = "scheme"
  /\ mapView \in MapViews
  /\ selectedState = "null" /\ error = "null"
  /\ selectedAreaDetails = Null /\ drilledAreaDetails = Null
  /\ biharGeoJson = Null /\ globalPMMSYMetrics = ZeroGlobalMetrics
  /\ geoFetches = << >> /\ biharFetches = << >>
  /\ crashed = FALSE
  /\ lastEvent = NoEvent /\ nEvents = 0 /\ genCount = 1
  /\ geoIssued = 0 /\ biharIssued = 0
  /\ out = Null
  /\ selectedActivityPMMSY = "all" /\ pmmsyAreaSpecificMetrics = Null

\* the pointer moves to a pixel of the map
PointerMove(pixel) ==
  /\ MapMounted
  /\ out' = Some([op |-> "tooltip", pixel |-> pixel, tooltip |-> Tooltip(pixel)])
  /\ UNCHANGED ViewInputs

NextTooltip == \E pixel \in Pixels : PointerMove(pixel)

SpecTooltip == InitTooltip /\ [][NextTooltip]_vars

\* the pointer is over a feature of the active level
OverActiveFeature(pixel) ==
  \E f \in Range(FeaturesAtPixel(pixel)) : f.level = mapView

\* C21: at every resolution, a pointer-move over a feature of the active level
\* shows a tooltip with the feature's name, its level, the current indicator
\* value and the officer's name; a pointer-move anywhere else hides it
TooltipShowsValue ==
  (~IsNull(out) /\ out.val.op = "tooltip") =>
     LET t == out.val.tooltip
     IN /\ ~IsNull(t) <=> OverActiveFeature(out.val.pixel)
        /\ ~IsNull(t) =>
             \E f \in Range(FeaturesAtPixel(out.val.pixel)) :
                /\ f.level = mapView
                /\ t.val.name = f.shapeName
                /\ t.val.type = TypeLabel(f.level)
                /\ t.val.officer = officerNames[f.shapeID]
                /\ ~IsNull(t.val.metric)
                /\ t.val.metric.val.text =
                     formatMetricValue(selectedMetric,
                                       StyleValue(metricData, f.shapeID,
                                                  demographicKey, selectedMetric))

\* C21, amended: as above, except that the tooltip carries the indicator
\* value for district and sub-district features only, and none for a state
TooltipShowsValueBelowState ==
  (~IsNull(out) /\ out.val.op = "tooltip") =>
     LET t == out.val.tooltip
     IN /\ ~IsNull(t) <=> OverActiveFeature(out.val.pixel)
        /\ ~IsNull(t) =>
             \E f \in Range(FeaturesAtPixel(out.val.pixel)) :
                /\ f.level = mapView
                /\ t.val.name = f.shapeName
                /\ t.val.type = TypeLabel(f.level)
                /\ t.val.officer = officerNames[f.shapeID]
                /\ ~IsNull(t.val.metric) <=> f.level /= "state"
                /\ ~IsNull(t.val.metric) =>
                     t.val.metric.val.text =
                       formatMetricValue(selectedMetric,
                                         StyleValue(metricData, f.shapeID,
                                                    demographicKey, selectedMetric))

\* C21 witness: a tooltip over a state without the indicator value, at state
\* resolution
TooltipOverState ==
  /\ ~IsNull(out) /\ out.val.op = "tooltip" /\ mapView = "state"
  /\ ~IsNull(out.val.tooltip) /\ IsNull(out.val.tooltip.val.metric)

----------------------------------------------------------------------------
(* Properties of the selection *)

\* the events that change a filter or the resolution
FilterEvents ==
  {"setMetric", "setGender", "setYear", "setSector", "setFinancialYear",
   "setBarCategory", "setMapView"}

\* C22: the detail panel shows the selection of the most recent click on a
\* feature of the active level, and is hidden once a click on empty space or
\* a close action came later; filter and resolution changes neither alter nor
\* clear the selection
PanelFollowsLastClick ==
  [][nEvents' = nEvents + 1 =>
       /\ (lastEvent'.type = "click" /\ lastEvent'.target /= "none")
            => /\ ~IsNull(selectedAreaDetails')
               /\ selectedAreaDetails'.val.common.id = lastEvent'.target
       /\ (lastEvent'.type = "click" /\ lastEvent'.target = "none")
            => IsNull(selectedAreaDetails')
       /\ lastEvent'.type = "closePopup" => IsNull(selectedAreaDetails')
       /\ lastEvent'.type \in FilterEvents
            => selectedAreaDetails' = selectedAreaDetails]_vars

----------------------------------------------------------------------------
(* Geography fetches that overlap *)

\* the PMMSY dashboard at rest: the stores were generated, the fetch issued
\* by the choice of the scheme and the Bihar fetch after it have resolved
InitRace ==
  /\ \E seed \in 0..(MaxSeed - 1) :
        /\ polygonData = Some(FilterAreal(GeoFile))
        /\ mockNonPMMSYData = Some(generateMockData(polygonData.val, seed))
        /\ mockPMMSYData = Some(generateMockPMMSYData(polygonData.val, seed))
  /\ schemeTotals = Some(SchemeTotalsOf(mockNonPMMSYData.val, mockPMMSYData.val))
  /\ selectedScheme = "PMMSY" /\ selectedMetric = "totalProjects"
  /\ selectedGender \in UserGenders /\ selectedYear = "all"
  /\ selectedSectorPMMSY = "all" /\ selectedFinancialYearPMMSY = "all"
  /\ \E seed \in 0..(MaxSeed - 1) :
        metricData = BiharUpdate(combinedMetricData, polygonData, BiharFile, seed)
  /\ selectedBarChartCategory = "scheme" /\ mapView = "state"
  /\ selectedState = "null" /\ error = "null"
  /\ selectedAreaDetails = Null /\ drilledAreaDetails = Null
  /\ biharGeoJson = Some(BiharFile)
  /\ \E n \in 0..(RandDen - 1) :
        globalPMMSYMetrics =
          AggregateChart(mockPMMSYData.val, ActiveFeatures, mapView, selectedGender,
                         selectedFinancialYearPMMSY, selectedSectorPMMSY,
                         selectedMetric, n)
  /\ geoFetches = << >> /\ biharFetches = << >>
  /\ crashed = FALSE
  /\ lastEvent = NoEvent /\ nEvents = 0 /\ genCount = 1
  /\ geoIssued = 0 /\ biharIssued = 0
  /\ out = Null
  /\ selectedActivityPMMSY = "all" /\ pmmsyAreaSpecificMetrics = Null

\* a request may be issued while another one of the same file is in flight
RaceLimit == MaxInFlight + 1

\* .then of fetch("/indianmap.geojson"), in any order of the requests
RaceGeoFetchLoaded(i) ==
  /\ ~crashed
  /\ polygonData' = Some(FilterAreal(GeoFile))
  /\ metricData' = geoFetches[i].captured
  /\ lastEvent' = Event("geoLoaded", "none", FALSE)
  /\ UNCHANGED << selectedMetric, selectedScheme, Filters, mapView, selectedState,
                  error, Selections, biharGeoJson, nEvents, out >>
  /\ EffectsWithin(RaceLimit, Remove(geoFetches, i), biharFetches, TRUE)

\* .then of fetch("/bihar1.geojson"), in any order of the requests
RaceBiharFetchLoaded(i) ==
  /\ ~crashed
  /\ biharGeoJson' = Some(BiharFile)
  /\ \E seed \in 0..(MaxSeed - 1) :
       metricData' = BiharUpdate(metricData, biharFetches[i].polygonData,
                                 BiharFile, seed)
  /\ lastEvent' = Event("biharLoaded", "none", FALSE)
  /\ UNCHANGED << polygonData, selectedMetric, selectedScheme, Filters, mapView,
                  selectedState, error, Selections, nEvents, out >>
  /\ EffectsWithin(RaceLimit, geoFetches, Remove(biharFetches, i), FALSE)

\* the Sector and Financial Year selects, changed while requests are in flight
RaceSetFilter(type, sector, fy) ==
  /\ CanAct /\ Screen = "dashboard" /\ selectedScheme = "PMMSY"
  /\ << sector, fy >> /= << selectedSectorPMMSY, selectedFinancialYearPMMSY >>
  /\ selectedSectorPMMSY' = sector
  /\ selectedFinancialYearPMMSY' = fy
  /\ nEvents' = nEvents + 1
  /\ lastEvent' = Event(type, "none", FALSE)
  /\ UNCHANGED << polygonData, metricData, error, biharGeoJson, out, selectedMetric,
                  selectedScheme, selectedGender, selectedYear,
                  selectedBarChartCategory, mapView, selectedState, Selections >>
  /\ EffectsWithin(RaceLimit, geoFetches, biharFetches, FALSE)

RaceSetSelectedSectorPMMSY(sector) ==
  RaceSetFilter("setSector", sector, selectedFinancialYearPMMSY)

RaceSetSelectedFinancialYearPMMSY(fy) ==
  RaceSetFilter("setFinancialYear", selectedSectorPMMSY, fy)

NextRace ==
  \/ \E i \in 1..Len(geoFetches) : RaceGeoFetchLoaded(i)
  \/ \E i \in 1..Len(biharFetches) : RaceBiharFetchLoaded(i)
  \/ \E sector \in UserSectors : RaceSetSelectedSectorPMMSY(sector)
  \/ \E fy \in UserFinancialYears : RaceSetSelectedFinancialYearPMMSY(fy)

SpecRace == InitRace /\ [][NextRace]_vars

\* C23: when several geography fetches were in flight, then after all of
\* them have resolved, in any order, the bags displayed for the national
\* features are those of the combined metric data for the current filters
ResolvedFetchesShowCurrentFilters ==
  (~crashed /\ geoFetches = << >> /\ ~IsNull(metricData))
    => \A id \in AreaIds(polygonData.val) :
          /\ id \in DOMAIN metricData.val
          /\ id \in DOMAIN combinedMetricData.val
          /\ metricData.val[id] = combinedMetricData.val[id]

----------------------------------------------------------------------------
(* The App component of src/App.tsx: loading *)

AppSectors == << "Inland", "Marine" >>
AppActivities == << "Infrastructure and Post-harvest Management",
                    "Fisheries Management and Regulatory Framework",
                    "Enhancement of Production and Productivity" >>
AppYears == << "2021-22", "2022-23", "2023-24" >>

\* list[Math.floor(Math.random() * list.length)], for the n-th draw
PickOf(list, seed, n) == list[((Rnd(seed, n) * Len(list)) \div RandDen) + 1]

\* Math.random() is called nine times for an entry
AppDrawsPerEntry == 9

\* generateMockPMMSYData: two entries for a feature, at most 1000 entries; the
\* fields the aggregation reads
AppGenerateMockPMMSYData(features, seed) ==
  [i \in 1..Min2(Len(features) * 2, 1000) |->
     LET f == features[((i - 1) % Len(features)) + 1]
         d == (i - 1) * AppDrawsPerEntry
     IN [state |-> IF f.state_name = "" THEN "Uttarakhand" ELSE f.state_name,
         district |-> IF f.district_name = "" THEN "Dehradun" ELSE f.district_name,
         taluk |-> IF f.subdistrict_name = "" THEN "Raipur" ELSE f.subdistrict_name,
         sector |-> PickOf(AppSectors, seed, d),
         activity |-> PickOf(AppActivities, seed, d + 1),
         financialYear |-> PickOf(AppYears, seed, d + 2)]]

\* generateMockData of this component: the scheme list includes PMMSY
AppGenerateMockData(areas, seed) ==
  [id \in AreaIds(areas) |->
     LET a == LastIndexOf(areas, id)
     IN [key \in LegacyKeys |-> MockBag(LegacySchemes, seed, a, areas[a], key)]]

\* the area an entry is counted for, "" when the map holds none of its keys
AppAreaOf(map, e) ==
  IF << e.state, e.district, e.taluk >> \in DOMAIN map
  THEN map[<< e.state, e.district, e.taluk >>]
  ELSE IF << e.state, e.district >> \in DOMAIN map THEN map[<< e.state, e.district >>]
  ELSE IF << e.state >> \in DOMAIN map THEN map[<< e.state >>]
  ELSE ""

\* the index key pattern of a filter against the lower-cased field of an entry
AppKeyMatches(selected, field) == selected = "all" \/ ToLowerCase(selected) = field

\* aggregatePMMSYDashboardData of this component, a callback over
\* [pmmsyDataIndex, shapeIdMap]: the project counts
AppAggregate(entries, map, sector, activity, financialYear) ==
  LET filtered == SelectSeq(entries, LAMBDA e :
                    /\ AppKeyMatches(sector, ToLowerCase(e.sector))
                    /\ AppKeyMatches(activity, ToLowerCase(e.activity))
                    /\ AppKeyMatches(financialYear, ToLowerCase(e.financialYear)))
      areas == {AppAreaOf(map, filtered[i]) : i \in 1..Len(filtered)} \ {""}
  IN [global |-> [totalProjects |-> Len(filtered)],
      areaSpecific |->
        [id \in areas |->
           [totalProjects |->
              Len(SelectSeq(filtered, LAMBDA e : AppAreaOf(map, e) = id))]]]

\* the fetches the model tells apart: they are counted modulo this number
IssueWindow == 4

\* what a run of the geography effect closes over
AppClosure ==
  [scheme |-> selectedScheme, sector |-> selectedSectorPMMSY,
   activity |-> selectedActivityPMMSY, financialYear |-> selectedFinancialYearPMMSY,
   mockNonPMMSYData |-> mockNonPMMSYData, entries |-> mockPMMSYData.val,
   features |-> IF IsNull(polygonData) THEN << >> ELSE polygonData.val]

\* after the first render and its effects: no store is generated while
\* polygonData is null, the geography fetch is in flight
InitApp ==
  /\ polygonData = Null /\ metricData = Null
  /\ mockNonPMMSYData = Null /\ mockPMMSYData = Some(<< >>) /\ schemeTotals = Null
  /\ selectedMetric = "beneficiaries" /\ selectedScheme = "all"
  /\ selectedGender = "all" /\ selectedYear = "all"
  /\ selectedSectorPMMSY = "all" /\ selectedFinancialYearPMMSY = "all"
  /\ selectedActivityPMMSY = "all"
  /\ selectedBarChartCategory = "scheme" /\ mapView = "state"
  /\ selectedState = "null" /\ error = "null"
  /\ selectedAreaDetails = Null /\ drilledAreaDetails = Null
  /\ biharGeoJson = Null
  /\ globalPMMSYMetrics = Some([totalProjects |-> 0])
  /\ pmmsyAreaSpecificMetrics = Some(<< >>)
  /\ geoFetches = << AppClosure >>
  /\ biharFetches = << >>
  /\ crashed = FALSE
  /\ lastEvent = NoEvent /\ nEvents = 0 /\ genCount = 0
  /\ geoIssued = 1 /\ biharIssued = 0
  /\ out = Null

AppUntouched ==
  << schemeTotals, selectedMetric, selectedGender, selectedYear,
     selectedBarChartCategory, mapView, selectedState, selectedAreaDetails,
     drilledAreaDetails, biharGeoJson, biharFetches, crashed, biharIssued, out,
     error >>

\* .then of the fetch.  setPolygonData is given a new object, so shapeIdMap is
\* computed anew and aggregatePMMSYDashboardData is a new callback: a
\* dependency of the geography effect has changed, the effect runs again and
\* issues the next fetch.  The two generation effects run once.
AppFetchLoaded(i) ==
  /\ error = "null"
  /\ LET c == geoFetches[i]
         areas == FilterAreal(LegacyGeoFile)
         dashboard == AppAggregate(c.entries, shapeIdMap(c.features), c.sector,
                                   c.activity, c.financialYear)
     IN /\ polygonData' = Some(areas)
        /\ metricData' = c.mockNonPMMSYData
        /\ IF c.scheme = "PMMSY"
           THEN /\ globalPMMSYMetrics' = Some(dashboard.global)
                /\ pmmsyAreaSpecificMetrics' = Some(dashboard.areaSpecific)
           ELSE UNCHANGED << globalPMMSYMetrics, pmmsyAreaSpecificMetrics >>
        /\ IF Len(mockPMMSYData.val) = 0
           THEN \E seed \in 0..(MaxSeed - 1) :
                  mockPMMSYData' = Some(AppGenerateMockPMMSYData(areas, seed))
           ELSE UNCHANGED mockPMMSYData
        /\ IF IsNull(mockNonPMMSYData)
           THEN /\ \E seed \in 0..(MaxSeed - 1) :
                     mockNonPMMSYData' = Some(AppGenerateMockData(areas, seed))
                /\ genCount' = genCount + 1
           ELSE UNCHANGED << mockNonPMMSYData, genCount >>
  /\ lastEvent' = Event("geoLoaded", "none", FALSE)
  /\ UNCHANGED << selectedScheme, LegacyDeps, nEvents, AppUntouched >>
  /\ geoFetches' = Append(Remove(geoFetches, i), AppClosure')
  /\ geoIssued' = (geoIssued % IssueWindow) + 1

\* the dashboard is rendered and the run has events left; no event completes
\* a request, so at most MaxEvents + 1 requests are in flight
AppCanAct ==
  /\ error = "null" /\ ~IsNull(polygonData) /\ ~IsNull(metricData)
  /\ nEvents < MaxEvents

\* a state update of a dependency of the geography effect: the effect runs
\* again
AppSetDeps(type, scheme, sector, activity, fy) ==
  /\ AppCanAct
  /\ << scheme, sector, activity, fy >> /= << selectedScheme >> \o LegacyDeps
  /\ selectedScheme' = scheme
  /\ selectedSectorPMMSY' = sector
  /\ selectedActivityPMMSY' = activity
  /\ selectedFinancialYearPMMSY' = fy
  /\ nEvents' = nEvents + 1
  /\ lastEvent' = Event(type, "none", FALSE)
  /\ UNCHANGED << polygonData, metricData, mockNonPMMSYData, mockPMMSYData,
                  globalPMMSYMetrics, pmmsyAreaSpecificMetrics, genCount,
                  AppUntouched >>
  /\ geoFetches' = Append(geoFetches, AppClosure')
  /\ geoIssued' = (geoIssued % IssueWindow) + 1

\* the Scheme select
AppSetSelectedScheme(scheme) ==
  AppSetDeps("selectScheme", scheme, selectedSectorPMMSY, selectedActivityPMMSY,
             selectedFinancialYearPMMSY)

\* the PMMSY selects: the debounced setter updates the state 300 ms after the
\* last change
AppSetSelectedSectorPMMSY(sector) ==
  /\ selectedScheme = "PMMSY"
  /\ AppSetDeps("setSector", selectedScheme, sector, selectedActivityPMMSY,
                selectedFinancialYearPMMSY)

AppSetSelectedFinancialYearPMMSY(fy) ==
  /\ selectedScheme = "PMMSY"
  /\ AppSetDeps("setFinancialYear", selectedScheme, selectedSectorPMMSY,
                selectedActivityPMMSY, fy)

NextApp ==
  \/ \E i \in 1..Len(geoFetches) : AppFetchLoaded(i)
  \/ \E scheme \in {"all", "PMMSY"} : AppSetSelectedScheme(scheme)
  \/ \E sector \in {"all"} \cup Range(AppSectors) : AppSetSelectedSectorPMMSY(sector)
  \/ \E fy \in {"all", "2023-24"} : AppSetSelectedFinancialYearPMMSY(fy)

\* every fetch succeeds and resolves; the user may stop at any time
SpecApp ==
  InitApp /\ [][NextApp]_vars /\ WF_vars(\E i \in 1..Len(geoFetches) : AppFetchLoaded(i))

\* C24: if every geography fetch succeeds and the user does nothing further,
\* the application reaches the loaded state and then becomes quiescent: from
\* some point on no fetch is in flight and none is issued
LoadsThenQuiescent ==
  <>[](~IsNull(polygonData) /\ ~IsNull(metricData) /\ geoFetches = << >>)

----------------------------------------------------------------------------
(* Properties of the drill-down *)

\* what the drill-down and the change of scheme leave alone
DrillUntouched ==
  << polygonData, mockNonPMMSYData, mockPMMSYData, schemeTotals, selectedGender,
     selectedYear, selectedSectorPMMSY, selectedFinancialYearPMMSY,
     selectedBarChartCategory, error, biharGeoJson, globalPMMSYMetrics,
     geoFetches, biharFetches, lastEvent, nEvents, genCount, geoIssued,
     biharIssued, selectedActivityPMMSY, pmmsyAreaSpecificMetrics,
     selectedAreaDetails, metricData, out >>

\* a double click on a state of the map: handleDrillDown
DrillDown(pixel) ==
  /\ ~crashed /\ MapMounted
  /\ ~IsNull(DrillArg(FeaturesAtPixel(pixel)))
  /\ LET drilled == DrillArg(FeaturesAtPixel(pixel))
     IN /\ selectedState' = StrOr(Prop(drilled.val, "name"), "Unknown Area")
        /\ \E n1, n2 \in HandlerDraws :
              drilledAreaDetails' = Some(AreaDetailsOf(drilled.val, n1, n2))
  /\ UNCHANGED << selectedScheme, selectedMetric, mapView >>
  /\ UNCHANGED DrillUntouched
  /\ crashed' = RenderThrows'

\* handleBack, the back button of the drill-down panel
DrillBack ==
  /\ ~crashed /\ Screen = "dashboard" /\ selectedState /= "null"
  /\ selectedState' = "null"
  /\ mapView' = "state"
  /\ UNCHANGED << selectedScheme, selectedMetric, drilledAreaDetails >>
  /\ UNCHANGED DrillUntouched
  /\ crashed' = RenderThrows'

\* the "Back to Schemes" button: the drill-down is kept
DrillBackToSchemes ==
  /\ ~crashed /\ Screen = "dashboard"
  /\ selectedScheme' = "null"
  /\ selectedMetric' = "beneficiaries"
  /\ UNCHANGED << selectedState, drilledAreaDetails, mapView >>
  /\ UNCHANGED DrillUntouched
  /\ crashed' = RenderThrows'

\* a scheme card: the drill-down is kept
DrillSelectScheme(scheme) ==
  /\ ~crashed /\ Screen = "schemes"
  /\ selectedScheme' = scheme
  /\ selectedMetric' = IF scheme = "PMMSY" THEN "totalProjects" ELSE "beneficiaries"
  /\ UNCHANGED << selectedState, drilledAreaDetails, mapView >>
  /\ UNCHANGED DrillUntouched
  /\ crashed' = RenderThrows'

NextDrill ==
  \/ \E pixel \in Pixels : DrillDown(pixel)
  \/ DrillBack
  \/ DrillBackToSchemes
  \/ \E scheme \in UserSchemes : DrillSelectScheme(scheme)
  \/ \E pixel \in Pixels : PopupAreaClick(pixel)
  \/ PopupClose

\* the dashboard of a scheme after load, its drill-down and the changes of
\* scheme
SpecDrill == InitPopup /\ [][NextDrill]_vars

\* C25: in every reachable state in which a drilled-down state is set,
\* drilledAreaDetails is non-null and carries the metric shape the
\* drill-down panel reads for the selected scheme: pmmsyMetrics when the
\* scheme is PMMSY, metrics otherwise
DrilledDetailsFitScheme ==
  (selectedState /= "null" /\ selectedScheme /= "null")
    => /\ ~IsNull(drilledAreaDetails)
       /\ IF selectedScheme = "PMMSY"
          THEN "pmmsyMetrics" \in DOMAIN drilledAreaDetails.val
          ELSE /\ "metrics" \in DOMAIN drilledAreaDetails.val
               /\ drilledAreaDetails.val.metrics /= NoBag

----------------------------------------------------------------------------
(* Properties of the Bihar district bags *)

\* the bags the store holds for the districts of /bihar1.geojson
BiharBags(md) ==
  IF IsNull(md) THEN << >>
  ELSE [id \in AreaIds(BiharFile) \cap DOMAIN md.val |-> md.val[id]]

\* C26: once the Bihar district bags have been derived and merged into the
\* metric data, they stay present with unchanged values after any later
\* filter change, scheme change and completion of a geography fetch
BiharBagsStay ==
  [][(BiharBags(metricData) /= << >>
        /\ lastEvent'.type \notin {"biharLoaded", "biharFailed"})
       => BiharBags(metricData') = BiharBags(metricData)]_vars

----------------------------------------------------------------------------
(* Properties of the PMMSY bags *)

\* the sum of the generated leaf bags of a feature that match the selections
LeafSum(store, id, gender, fy, sector) ==
  [m \in PmmsyIndicators |->
     SumOver({k \in PMMSYLeafKeys : KeyMatches(k, gender, fy, sector)},
             [k \in PMMSYLeafKeys |-> store[id][k][m]])]

\* C27: in PMMSY mode, for every combination of gender, financial-year and
\* sector selections, the bag of a feature used for colouring, KPIs and pie
\* buckets equals the sum of the feature's generated leaf bags that match the
\* selections
FeatureBagIsLeafSum ==
  (selectedScheme = "PMMSY" /\ ~IsNull(combinedMetricData))
    => \A id \in DOMAIN combinedMetricData.val :
          combinedMetricData.val[id][AggregatedKey] =
            LeafSum(mockPMMSYData.val, id, selectedGender,
                    selectedFinancialYearPMMSY, selectedSectorPMMSY)

\* C28: in PMMSY mode the global totals (total projects, total investment,
\* fish output) equal the sum, over the active-level features of the rendered
\* set, of the generated leaf bags matching the gender, financial-year and
\* sector selections, each leaf bag counted exactly once
GlobalTotalsAreLeafSums ==
  (selectedScheme = "PMMSY" /\ ~IsNull(mockPMMSYData) /\ ~IsNull(polygonData))
    => \A m \in PmmsyIndicators :
          globalPMMSYMetrics.totals[m] =
            SeqSum(SeqMap(LAMBDA f :
                            LeafSum(mockPMMSYData.val, f.shapeID, selectedGender,
                                    selectedFinancialYearPMMSY,
                                    selectedSectorPMMSY)[m],
                          ActiveFeatures))

----------------------------------------------------------------------------
(* Properties of the indicator and of the colours *)

\* C29: in every quiescent state the selected indicator belongs to the
\* indicator set of the selected scheme (totalProjects, totalInvestment or
\* fishOutput if and only if the scheme is PMMSY), so the bracket list
\* defines the selected indicator
IndicatorFitsScheme ==
  /\ selectedMetric \in PmmsyIndicators <=> selectedScheme = "PMMSY"
  /\ selectedMetric \in PmmsyIndicators \cup GenericMetrics
  /\ brackets(selectedMetric) /= << >>

\* C29 witness: another indicator of PMMSY was chosen in the header
PmmsyIndicatorChosen ==
  /\ selectedScheme = "PMMSY" /\ lastEvent.type = "setMetric"
  /\ selectedMetric \in PmmsyIndicators \ {"totalProjects"}

\* C30: for every indicator and every non-negative value, the fill colour
\* returned by getColor is the colour of the pie bracket that contains the
\* value
ColourIsBracketColour ==
  (~IsNull(out) /\ out.val.op = "bracket")
    => /\ out.val.index \in 1..Len(bracketColors(selectedMetric))
       /\ out.val.color = bracketColors(selectedMetric)[out.val.index]

\* C30 witness: a value at the lower limit of a bracket between the first
\* and the last was coloured
BracketLimitColoured ==
  /\ ~IsNull(out) /\ out.val.op = "bracket"
  /\ out.val.index \in 2..3
  /\ out.val.value = brackets(selectedMetric)[out.val.index].min

====
